---- MODULE Spec2Model ----
(***************************************************************************)
(* RespondentPro: the project cache store (web/cache_manager.py), the      *)
(* hidden-project ledger (web/hidden_projects_tracker.py) and the stale     *)
(* cache sweep (web/cache_refresh.py), modelled over a Firestore-like       *)
(* document store.  Time is counted in whole hours.                         *)
(***************************************************************************)
EXTENDS Integers, Sequences, FiniteSets, TLC

VARIABLES users, cache, projects, ledger, sessions, now, last, sweep, gen

vars == <<users, cache, projects, ledger, sessions, now, last, sweep, gen>>

(***************************************************************************)
(* Bounds of the model.                                                     *)
(***************************************************************************)
MaxLen == 2
MaxClock == 1
MaxRecords == 2
MaxHour == 25
MaxStored == 13

(***************************************************************************)
(* Program constants.                                                       *)
(***************************************************************************)
BatchLimit == 500
PaginateBuffer == 10

(***************************************************************************)
(* Identifiers.  "L" is the key of a migrated user's record, whose          *)
(* firebase_uid field holds "N"; "B" is the key of a user record that is    *)
(* its own Firebase uid.  No user record is stored under "N".               *)
(***************************************************************************)
NoUid == "-"
CallerIds == {"L", "N", "B"}
CacheIds == {"N"}

UserRecords ==
    [L |-> [firebase_uid |-> "N", projects_processed_count |-> 0],
     B |-> [firebase_uid |-> NoUid, projects_processed_count |-> 0]]

(* Values a project's 'id' field (or a project_id argument) can hold: a    *)
(* string, an integer, or nothing at all.                                   *)
StrId(t) == [kind |-> "str", text |-> t]
IntId(t) == [kind |-> "int", text |-> t]
NoId == [kind |-> "none", text |-> ""]
IdValues == {StrId("7"), IntId("7"), StrId(""), NoId}
(* Ids that name a document of the sub-collection. *)
DocIdValues == {StrId("7"), IntId("7"), NoId}
LedgerIdValues == {StrId("p1"), IntId("7")}
LedgerIds == {"L", "N"}
Methods == {"manual", "ai_auto"}

(* Python's str(): str(None) is "None", str(7) is "7", a string is itself. *)
ToStr(v) == IF v.kind = "none" THEN "None" ELSE v.text

Project(v) == [id |-> v]
ProjectValues == {Project(v) : v \in IdValues}

SeqsUpTo(S, n) == UNION {[1..k -> S] : k \in 0..n}

RECURSIVE SeqToSet(_)
SeqToSet(s) == IF s = <<>> THEN {} ELSE {Head(s)} \cup SeqToSet(Tail(s))

Max(a, b) == IF a >= b THEN a ELSE b

(***************************************************************************)
(* Timestamps: a stored cached_at is a datetime, or absent, or a value of   *)
(* another type.                                                            *)
(***************************************************************************)
Ts(t) == [kind |-> "ts", t |-> t]
MissingTs == [kind |-> "missing", t |-> 0]
TextTs == [kind |-> "text", t |-> 0]

(***************************************************************************)
(* Identity resolver.                                                       *)
(***************************************************************************)
LegacyKeysOf(u) == {k \in DOMAIN users : users[k].firebase_uid = u}

resolve_user_id_for_query(u) ==
    IF u \in DOMAIN users
    THEN [current |-> u, old |-> NoUid]
    ELSE IF LegacyKeysOf(u) # {}
         THEN [current |-> u, old |-> CHOOSE k \in LegacyKeysOf(u) : TRUE]
         ELSE [current |-> u, old |-> NoUid]

(***************************************************************************)
(* Batched writes to the 'projects' sub-collection.  An operation is a      *)
(* delete or a set of one document; a batch is committed each time it       *)
(* holds BatchLimit operations, and once more at the end when non-empty.    *)
(***************************************************************************)
DelOp(k) == [type |-> "delete", key |-> k, doc |-> Project(NoId)]
SetOp(k, d) == [type |-> "set", key |-> k, doc |-> d]

ApplyOp(children, op) ==
    IF op.type = "delete"
    THEN [k \in DOMAIN children \ {op.key} |-> children[k]]
    ELSE [k \in DOMAIN children \cup {op.key} |->
            IF k = op.key THEN op.doc ELSE children[k]]

RECURSIVE ApplyOps(_, _)
ApplyOps(children, ops) ==
    IF ops = <<>> THEN children
    ELSE ApplyOps(ApplyOp(children, Head(ops)), Tail(ops))

NumBatches(ops) == (Len(ops) + BatchLimit - 1) \div BatchLimit

(* The operations of the first n committed batches. *)
CommittedOps(ops, n) ==
    SubSeq(ops, 1, IF n * BatchLimit < Len(ops) THEN n * BatchLimit ELSE Len(ops))

RECURSIVE KeysInOrder(_)
KeysInOrder(S) ==
    IF S = {} THEN <<>>
    ELSE LET k == CHOOSE x \in S : TRUE IN <<k>> \o KeysInOrder(S \ {k})

(* Lines 279-304 of refresh_project_cache: a delete for every existing     *)
(* document, then a set for every supplied project whose str(id) is not    *)
(* empty.                                                                   *)
RECURSIVE WriteOps(_)
WriteOps(plist) ==
    IF plist = <<>> THEN <<>>
    ELSE LET project_id == ToStr(Head(plist).id)
         IN  IF project_id = ""
             THEN WriteOps(Tail(plist))
             ELSE <<SetOp(project_id, Head(plist))>> \o WriteOps(Tail(plist))

(* ReplaceOps without the deletes of the existing documents. *)
ReplaceOps_NoDelete(children, plist) == WriteOps(plist)

ReplaceOps(children, plist) ==
    [i \in 1..Cardinality(DOMAIN children) |->
        DelOp(KeysInOrder(DOMAIN children)[i])] \o WriteOps(plist)

(* HideOps that leaves out the last id. *)
HideOps_SkipLast(ids) == [i \in 1..(Len(ids) - 1) |-> DelOp(ToStr(ids[i]))]

(* Lines 415-425 of mark_projects_hidden_in_cache. *)
HideOps(ids) == [i \in 1..Len(ids) |-> DelOp(ToStr(ids[i]))]

(***************************************************************************)
(* Read operations of the cache store, as functions of the stored state.    *)
(***************************************************************************)
NoResult == [found |-> FALSE]

ChildDocs(u) == {projects[u][k] : k \in DOMAIN projects[u]}

get_cached_projects(u) ==
    LET current_user_id == resolve_user_id_for_query(u).current IN
    IF current_user_id \notin DOMAIN cache THEN NoResult
    ELSE [found |-> TRUE,
          projects |-> ChildDocs(current_user_id),
          cached_at |-> cache[current_user_id].cached_at,
          total_count |-> Cardinality(ChildDocs(current_user_id))]

(* get_cache_stats that reports the stored total_count field. *)
get_cache_stats_Stored(u) ==
    LET current_user_id == resolve_user_id_for_query(u).current IN
    IF current_user_id \notin DOMAIN cache
    THEN [exists |-> FALSE, cached_at |-> MissingTs,
          last_updated |-> MissingTs, total_count |-> 0]
    ELSE [exists |-> TRUE,
          cached_at |-> cache[current_user_id].cached_at,
          last_updated |-> cache[current_user_id].last_updated,
          total_count |-> cache[current_user_id].total_count]

(* Lines 336-355: the count of the documents of the sub-collection. *)
get_cache_stats(u) ==
    LET current_user_id == resolve_user_id_for_query(u).current IN
    IF current_user_id \notin DOMAIN cache
    THEN [exists |-> FALSE, cached_at |-> MissingTs,
          last_updated |-> MissingTs, total_count |-> 0]
    ELSE [exists |-> TRUE,
          cached_at |-> cache[current_user_id].cached_at,
          last_updated |-> cache[current_user_id].last_updated,
          total_count |-> Cardinality(DOMAIN projects[current_user_id])]

(* age <= timedelta(hours=max_age_hours) *)
WithinMaxAge_Inclusive(age, max_age_hours) == age <= max_age_hours

(* age < timedelta(hours=max_age_hours), ages and hours in whole hours. *)
WithinMaxAge(age, max_age_hours) == age < max_age_hours

is_cache_fresh(u, max_age_hours) ==
    LET current_user_id == resolve_user_id_for_query(u).current IN
    IF current_user_id \notin DOMAIN cache THEN FALSE
    ELSE LET cached_at == cache[current_user_id].cached_at IN
         IF cached_at.kind = "missing" THEN FALSE
         ELSE IF cached_at.kind # "ts" THEN FALSE
         ELSE WithinMaxAge(now - cached_at.t, max_age_hours)

(***************************************************************************)
(* History.  `last` is the record of the last call: its name, its user id,  *)
(* its result and, for a successful write, its arguments; the record of a   *)
(* read also holds the record of the call it followed.  `gen` holds, for    *)
(* each cache entry, the number of projects the last successful replaceAll  *)
(* left in it, the number of ids the deleteSet calls since then were given, *)
(* and whether each of those calls succeeded with ids that were pairwise    *)
(* distinct and present in the cache.                                       *)
(***************************************************************************)
NoPred == [op |-> "none"]
NoOp == [op |-> "none", pred |-> NoPred]

Strip(r) == [f \in DOMAIN r \ {"pred"} |-> r[f]]

NoGen == [n |-> 0, stored |-> 0, k |-> 0, valid |-> FALSE]

Init ==
    /\ users = UserRecords
    /\ cache = <<>>
    /\ projects = [u \in CallerIds |-> <<>>]
    /\ ledger = <<>>
    /\ sessions = <<>>
    /\ now = 0
    /\ last = NoOp
    /\ sweep = [pc |-> "idle"]
    /\ gen = [u \in CallerIds |-> NoGen]

(***************************************************************************)
(* Time passes.                                                             *)
(***************************************************************************)
Tick ==
    /\ now < MaxClock
    /\ now' = now + 1
    /\ UNCHANGED <<users, cache, projects, ledger, sessions, last, sweep, gen>>

(***************************************************************************)
(* replaceAll.  fail = "early": the parent write raises; fail = "batch":    *)
(* the parent document is written and then either db is None or commit      *)
(* number failed_batch raises (the batches before it stay committed);       *)
(* fail = "none": every step succeeds.                                      *)
(***************************************************************************)
(* StoredCount that trusts the total_count argument. *)
StoredCount_Arg(plist, total_count) == total_count

(* The count replaceAll stores: len(projects), whatever total_count is. *)
StoredCount(plist, total_count) == Len(plist)

ParentData(current_user_id, plist, total_count) ==
    [user_id |-> current_user_id,
     total_count |-> StoredCount(plist, total_count),
     cached_at |-> Ts(now),
     last_updated |-> Ts(now)]

SetDoc(coll, key, doc) ==
    [k \in DOMAIN coll \cup {key} |-> IF k = key THEN doc ELSE coll[k]]

(* An except clause that returns True. *)
WriteFailed_True(name, u, fail) ==
    [op |-> name, user |-> u, result |-> TRUE, fail |-> fail, pred |-> NoPred]

(* The except clause of a write of the cache: it returns False. *)
WriteFailed(name, u, fail) ==
    [op |-> name, user |-> u, result |-> FALSE, fail |-> fail, pred |-> NoPred]

refresh_project_cache(u, plist, total_count, fail) ==
    LET current_user_id == resolve_user_id_for_query(u).current
        ops == ReplaceOps(projects[current_user_id], plist)
    IN
    /\ \/ /\ fail = "early"
          /\ UNCHANGED <<cache, projects, gen>>
          /\ last' = WriteFailed("replaceAll", u, fail)
       \/ /\ fail = "batch"
          /\ cache' = SetDoc(cache, current_user_id, ParentData(current_user_id, plist, total_count))
          /\ \E failed_batch \in 1..Max(1, NumBatches(ops)) :
                projects' = [projects EXCEPT ![current_user_id] =
                    ApplyOps(@, CommittedOps(ops, failed_batch - 1))]
          /\ gen' = [gen EXCEPT ![current_user_id] = NoGen]
          /\ last' = WriteFailed("replaceAll", u, fail)
       \/ /\ fail = "none"
          /\ cache' = SetDoc(cache, current_user_id, ParentData(current_user_id, plist, total_count))
          /\ projects' = [projects EXCEPT ![current_user_id] = ApplyOps(@, ops)]
          /\ gen' = [gen EXCEPT ![current_user_id] =
                [n |-> Cardinality(DOMAIN projects'[current_user_id]),
                 stored |-> Len(plist), k |-> 0, valid |-> TRUE]]
          /\ last' = [op |-> "replaceAll", user |-> u, result |-> TRUE,
                      projects |-> plist, total_count |-> total_count,
                      existing |-> DOMAIN projects[current_user_id],
                      pred |-> NoPred]

TotalCountArgs == {0, 1}

ReplaceAll ==
    \E u \in CacheIds, plist \in SeqsUpTo(ProjectValues, MaxLen),
       total_count \in TotalCountArgs, fail \in {"none", "early", "batch"} :
        /\ refresh_project_cache(u, plist, total_count, fail)
        /\ UNCHANGED <<users, ledger, sessions, now, sweep>>

(***************************************************************************)
(* deleteSet.  fail = "early": db is None, or a read or the commit raises   *)
(* before anything is deleted; fail = "update": the deletes are committed   *)
(* and the parent update raises.                                            *)
(***************************************************************************)
(* NewCount that takes one off the count, whatever the number of ids. *)
NewCount_OneLess(current_count, total_to_delete) == Max(0, current_count - 1)

(* The estimate deleteSet stores (line 438). *)
NewCount(current_count, total_to_delete) == Max(0, current_count - total_to_delete)

Keys(ids) == {ToStr(ids[i]) : i \in 1..Len(ids)}

ValidDelete(current_user_id, project_ids) ==
    /\ Cardinality(Keys(project_ids)) = Len(project_ids)
    /\ Keys(project_ids) \subseteq DOMAIN projects[current_user_id]

mark_projects_hidden_in_cache(u, project_ids, fail) ==
    LET current_user_id == resolve_user_id_for_query(u).current
        done(ok) == [op |-> "deleteSet", user |-> u, result |-> ok,
                     ids |-> project_ids, pred |-> NoPred]
    IN
    /\ IF project_ids = <<>>
       THEN /\ UNCHANGED <<cache, projects, gen>>
            /\ last' = done(TRUE)
       ELSE IF current_user_id \notin DOMAIN cache
       THEN /\ UNCHANGED <<cache, projects, gen>>
            /\ last' = WriteFailed("deleteSet", u, "missing")
       ELSE LET current_count == cache[current_user_id].total_count
                total_to_delete == Len(project_ids)
                new_count == NewCount(current_count, total_to_delete)
            IN
            \/ /\ fail = "early"
               /\ UNCHANGED <<cache, projects, gen>>
               /\ last' = WriteFailed("deleteSet", u, fail)
            \/ /\ fail = "update"
               /\ projects' = [projects EXCEPT ![current_user_id] =
                                 ApplyOps(@, HideOps(project_ids))]
               /\ UNCHANGED cache
               /\ gen' = [gen EXCEPT ![current_user_id] = NoGen]
               /\ last' = WriteFailed("deleteSet", u, fail)
            \/ /\ fail = "none"
               /\ projects' = [projects EXCEPT ![current_user_id] =
                                 ApplyOps(@, HideOps(project_ids))]
               /\ cache' = [cache EXCEPT ![current_user_id] =
                              [@ EXCEPT !.total_count = new_count,
                                        !.last_updated = Ts(now)]]
               /\ gen' = [gen EXCEPT ![current_user_id] =
                     IF @.valid /\ ValidDelete(current_user_id, project_ids)
                     THEN [@ EXCEPT !.k = @ + total_to_delete]
                     ELSE NoGen]
               /\ last' = done(TRUE)

DeleteSet ==
    \E u \in CacheIds, project_ids \in SeqsUpTo(DocIdValues, MaxLen),
       fail \in {"none", "early", "update"} :
        /\ mark_projects_hidden_in_cache(u, project_ids, fail)
        /\ UNCHANGED <<users, ledger, sessions, now, sweep>>

(***************************************************************************)
(* The read operations, as calls.                                           *)
(***************************************************************************)
GetProjects ==
    \E u \in CacheIds :
        /\ last' = [op |-> "getProjects", user |-> u,
                    result |-> get_cached_projects(u), pred |-> Strip(last)]
        /\ UNCHANGED <<users, cache, projects, ledger, sessions, now, sweep, gen>>

CacheStats ==
    \E u \in CacheIds :
        /\ last' = [op |-> "stats", user |-> u,
                    result |-> get_cache_stats(u), pred |-> Strip(last)]
        /\ UNCHANGED <<users, cache, projects, ledger, sessions, now, sweep, gen>>

NextCache == ReplaceAll \/ DeleteSet \/ GetProjects \/ CacheStats

SpecCache == Init /\ [][NextCache]_vars

(***************************************************************************)
(* isFresh, applied to a stored entry of any age: the clock stands at any   *)
(* hour up to MaxHour and the entry of the canonical id is absent, or holds *)
(* a cached_at of any hour, no cached_at, or a cached_at that is no         *)
(* datetime.                                                                *)
(***************************************************************************)
DefaultMaxAgeHours == 24

MaxAgeArgs == {1, DefaultMaxAgeHours}

StoredTimestamps == {Ts(t) : t \in 0..MaxHour} \cup {MissingTs, TextTs}

InitFresh ==
    /\ users = UserRecords
    /\ projects = [u \in CallerIds |-> <<>>]
    /\ ledger = <<>>
    /\ sessions = <<>>
    /\ last = NoOp
    /\ sweep = [pc |-> "idle"]
    /\ gen = [u \in CallerIds |-> NoGen]
    /\ now \in 0..MaxHour
    /\ \/ cache = <<>>
       \/ \E u \in CacheIds, cached_at \in StoredTimestamps :
             cache = (u :> [user_id |-> u, total_count |-> 0,
                            cached_at |-> cached_at, last_updated |-> cached_at])

IsFresh ==
    \E u \in CallerIds, max_age_hours \in MaxAgeArgs :
        /\ last' = [op |-> "isFresh", user |-> u,
                    max_age_hours |-> max_age_hours,
                    result |-> is_cache_fresh(u, max_age_hours),
                    pred |-> NoPred]
        /\ UNCHANGED <<users, cache, projects, ledger, sessions, now, sweep, gen>>

NextFresh == IsFresh

SpecFresh == InitFresh /\ [][NextFresh]_vars

(***************************************************************************)
(* The stale-cache sweep, refresh_stale_caches.  `sessions` holds the       *)
(* session_keys document of a user id: whether its cookies hold             *)
(* respondent.session.sid, and its is_valid flag.  `sweep` holds the        *)
(* position of the run, the cache documents still to visit, max_age_hours,  *)
(* the four counters of the summary and, per listed document, whether its   *)
(* entry was fresh when listed, the counter it was counted in, and the      *)
(* remote calls and cache writes issued for it.                             *)
(* The profile lookup, the verification and the fetch are calls to          *)
(* collaborators whose outcome is any of those the sweep distinguishes.     *)
(***************************************************************************)
SweepIds == {"N", "B"}

(* is_valid holds True or False, or is absent (None). *)
IsValidValues == {"True", "False", "None"}

SessionDocs == [sid : BOOLEAN, is_valid : IsValidValues]

SweepEntries(k) ==
    [user_id : {k, NoUid}, total_count : {0},
     cached_at : {Ts(0), MissingTs}, last_updated : {Ts(0)}]

FetchedLists == {<<>>, <<Project(StrId("7"))>>}

UpstreamOutcomes ==
    {"lookup_raised", "no_profile", "verify_failed", "verify_raised",
     "fetch_raised", "fetched"}

(* The remote calls issued before the iteration ends with the outcome. *)
CallsOf(outcome) ==
    CASE outcome \in {"lookup_raised", "no_profile"} -> {}
      [] outcome \in {"verify_failed", "verify_raised"} -> {"verify"}
      [] outcome \in {"fetch_raised", "fetched"} -> {"verify", "fetch"}

Counters == {"refreshed", "error", "skipped_fresh", "skipped_no_user_id"}

InitSweep ==
    /\ users = UserRecords
    /\ projects = [u \in CallerIds |-> <<>>]
    /\ ledger = <<>>
    /\ last = NoOp
    /\ gen = [u \in CallerIds |-> NoGen]
    /\ now \in 0..MaxClock
    /\ sweep = [pc |-> "idle"]
    /\ \E S \in SUBSET SweepIds :
          /\ S # {}
          /\ \E c \in [S -> UNION {SweepEntries(k) : k \in S}] :
                /\ \A k \in S : c[k] \in SweepEntries(k)
                /\ cache = c
    /\ \E S \in SUBSET SweepIds : sessions \in [S -> SessionDocs]

(* Lines 82-94: the listing of the cache documents and the counters. *)
SweepStart ==
    /\ sweep.pc = "idle"
    /\ \E max_age_hours \in MaxAgeArgs, listing_fails \in BOOLEAN :
          sweep' = IF listing_fails THEN [pc |-> "failed"]
                   ELSE [pc |-> "loop", max_age_hours |-> max_age_hours,
                         todo |-> DOMAIN cache,
                         total_users |-> Cardinality(DOMAIN cache),
                         refreshed |-> 0, error |-> 0, skipped_fresh |-> 0,
                         skipped_no_user_id |-> 0,
                         fresh |-> [k \in DOMAIN cache |->
                                      cache[k].user_id # NoUid
                                      /\ is_cache_fresh(cache[k].user_id, max_age_hours)],
                         counted |-> [k \in DOMAIN cache |-> "none"],
                         calls |-> [k \in DOMAIN cache |-> {}]]
    /\ UNCHANGED <<users, cache, projects, ledger, sessions, now, last, gen>>

Counted(k, counter) ==
    [sweep EXCEPT !.todo = @ \ {k}, ![counter] = @ + 1, !.counted[k] = counter]

(* Lines 106-115: `continue` with no counter. *)
Uncounted(k) == [sweep EXCEPT !.todo = @ \ {k}]

(* An iteration that ends in the handler of the loop body ending with    *)
(* `return` in place of the next iteration.                                *)
Failed_Abort(k, outcome) == [pc |-> "failed"]

(* Lines 121-132, 158-164: the iteration failed: error_count += 1, and     *)
(* the loop goes on with the next document.                                *)
Failed(k, outcome) ==
    [Counted(k, "error") EXCEPT !.calls[k] = CallsOf(outcome)]

(* Lines 96-167: one iteration of the loop over the listed documents. *)
SweepUser ==
    /\ sweep.pc = "loop"
    /\ \E k \in sweep.todo :
         LET user_id == cache[k].user_id IN
         IF user_id = NoUid
         THEN /\ sweep' = Counted(k, "skipped_no_user_id")
              /\ UNCHANGED <<cache, projects, last, gen>>
         ELSE IF is_cache_fresh(user_id, sweep.max_age_hours)
         THEN /\ sweep' = Counted(k, "skipped_fresh")
              /\ UNCHANGED <<cache, projects, last, gen>>
         ELSE IF user_id \notin DOMAIN sessions \/ ~sessions[user_id].sid
         THEN /\ sweep' = Uncounted(k)
              /\ UNCHANGED <<cache, projects, last, gen>>
         ELSE \E outcome \in UpstreamOutcomes, all_projects \in FetchedLists,
                 total_count \in TotalCountArgs,
                 fail \in {"none", "early", "batch"} :
                IF outcome = "fetched" /\ Len(all_projects) > 0
                THEN /\ refresh_project_cache(user_id, all_projects, total_count, fail)
                     /\ sweep' = [Counted(k, "refreshed") EXCEPT
                                     !.calls[k] = CallsOf(outcome) \cup {"replaceAll"}]
                ELSE /\ fail = "none"
                     /\ total_count = 0
                     /\ outcome = "fetched" \/ all_projects = <<>>
                     /\ sweep' = Failed(k, outcome)
                     /\ UNCHANGED <<cache, projects, last, gen>>
    /\ UNCHANGED <<users, ledger, sessions, now>>

(* Lines 163-169: the summary. *)
SweepFinish ==
    /\ sweep.pc = "loop"
    /\ sweep.todo = {}
    /\ sweep' = [sweep EXCEPT !.pc = "done"]
    /\ UNCHANGED <<users, cache, projects, ledger, sessions, now, last, gen>>

NextSweep == SweepStart \/ SweepUser \/ SweepFinish

SpecSweep == InitSweep /\ [][NextSweep]_vars

(***************************************************************************)
(* The hidden-project ledger: the documents of hidden_projects_log, held    *)
(* as a bag (document ids are random and play no part).                     *)
(***************************************************************************)
RECURSIVE SumOver(_, _)
SumOver(b, S) ==
    IF S = {} THEN 0
    ELSE LET r == CHOOSE x \in S : TRUE IN b[r] + SumOver(b, S \ {r})

BagPut(b, r, n) ==
    [x \in DOMAIN b \cup {r} |->
        IF x = r THEN (IF r \in DOMAIN b THEN b[r] + n ELSE n) ELSE b[x]]

BagDrop(b, r, n) ==
    IF b[r] > n THEN [b EXCEPT ![r] = @ - n]
    ELSE [x \in DOMAIN b \ {r} |-> b[x]]

NumDocs == SumOver(ledger, DOMAIN ledger)

(* where('user_id', '==', u) *)
DocsOfUser(u) == {r \in DOMAIN ledger : r.user_id = u}

(* where('user_id', '==', u).where('project_id', '==', key) *)
DocsOfPair(u, key) == {r \in DOMAIN ledger : r.user_id = u /\ r.project_id = key}

CountOfUser(u) == SumOver(ledger, DocsOfUser(u))

CountOfPair(u, key) == SumOver(ledger, DocsOfPair(u, key))

(* update({'user_id': current_user_id}) on one document that does nothing. *)
Migrated_Keep(r, current_user_id) == r

(* update({'user_id': current_user_id}) on one document. *)
Migrated(r, current_user_id) == [r EXCEPT !.user_id = current_user_id]

RECURSIVE MigrateDocs(_, _, _)
MigrateDocs(b, S, current_user_id) ==
    IF S = {} THEN b
    ELSE LET r == CHOOSE x \in S : TRUE
         IN  MigrateDocs(BagPut(BagDrop(b, r, b[r]), Migrated(r, current_user_id), b[r]),
                         S \ {r}, current_user_id)

(* The record of a ledger call: its arguments, what it returned, the       *)
(* number of documents it wrote, and whether it inserted a document or     *)
(* ended in its exception handler.  A count that directly follows a        *)
(* successful count with the same user id keeps that call as `pred`.       *)
NoKey == ""

LedgerCall(name, u, key, method, result, writes, inserted, failed) ==
    [op |-> name, user |-> u, pid |-> key, method |-> method,
     result |-> result, writes |-> writes, inserted |-> inserted,
     failed |-> failed,
     pred |-> IF name = "count" /\ last.op = "count" /\ last.user = u
                 /\ ~last.failed
              THEN Strip(last) ELSE NoPred]

(***************************************************************************)
(* record.  fail = "early": a read or the document write raises, nothing    *)
(* is stored and the call returns false; fail = "counter": the update of    *)
(* projects_processed_count raises and is swallowed.                        *)
(***************************************************************************)
(* update(update_doc) that also rewrites created_at. *)
UpdatedDoc_Created(r, current_user_id, key, hidden_method) ==
    [user_id |-> current_user_id, project_id |-> key, hidden_at |-> now,
     hidden_method |-> hidden_method, updated_at |-> now, created_at |-> now]

(* update(update_doc): the fields of update_doc replace those of the       *)
(* document, created_at is not among them.                                  *)
UpdatedDoc(r, current_user_id, key, hidden_method) ==
    [r EXCEPT !.user_id = current_user_id, !.project_id = key,
              !.hidden_at = now, !.hidden_method = hidden_method,
              !.updated_at = now]

NewDoc(current_user_id, key, hidden_method) ==
    [user_id |-> current_user_id, project_id |-> key, hidden_at |-> now,
     hidden_method |-> hidden_method, updated_at |-> now, created_at |-> now]

(* An update of the counter that writes back the count it read. *)
ProcessedCount_Same(current_count) == current_count

(* Lines 103-106: projects_processed_count becomes current_count + 1. *)
ProcessedCount(current_count) == current_count + 1

(* The documents the lookup of line 78 can return. *)
ExistingDocs(current_user_id, key) == DocsOfPair(current_user_id, key)

log_hidden_project(u, project_id, hidden_method, fail) ==
    LET current_user_id == resolve_user_id_for_query(u).current
        key == ToStr(project_id)
        docs == ExistingDocs(current_user_id, key)
        call(ok, writes, is_new) ==
            LedgerCall("record", u, key, hidden_method, ok, writes, is_new, ~ok)
    IN
    /\ \/ /\ fail = "early"
          /\ UNCHANGED <<ledger, users>>
          /\ last' = LedgerCall("record", u, NoKey, "", FALSE, 0, FALSE, TRUE)
       \/ /\ fail = "none"
          /\ docs # {}
          /\ \E r \in docs :
                ledger' = BagPut(BagDrop(ledger, r, 1),
                                 UpdatedDoc(r, current_user_id, key, hidden_method), 1)
          /\ UNCHANGED users
          /\ last' = call(TRUE, 1, FALSE)
       \/ /\ fail # "early"
          /\ docs = {}
          /\ NumDocs < MaxRecords
          /\ ledger' = BagPut(ledger, NewDoc(current_user_id, key, hidden_method), 1)
          /\ IF fail = "none" /\ current_user_id \in DOMAIN users
             THEN users' = [users EXCEPT ![current_user_id].projects_processed_count =
                                              ProcessedCount(@)]
             ELSE UNCHANGED users
          /\ last' = call(TRUE, 1, TRUE)
                        @@ [counter_failed |->
                               fail = "counter" /\ current_user_id \in DOMAIN users]

Record ==
    \E u \in LedgerIds, project_id \in LedgerIdValues, hidden_method \in Methods,
       fail \in {"none", "early", "counter"} :
        /\ log_hidden_project(u, project_id, hidden_method, fail)
        /\ UNCHANGED <<cache, projects, sessions, now, sweep, gen>>

(***************************************************************************)
(* count.  fail = "raise": the migration raises and the call returns 0:    *)
(* nothing is written when the batch commit raises (line 149), and the     *)
(* documents updated so far stay updated when db is None and one of the    *)
(* one-by-one updates raises (line 155).                                    *)
(***************************************************************************)
get_hidden_projects_count(u, fail) ==
    LET res == resolve_user_id_for_query(u)
        count == CountOfUser(res.current)
        docs == IF res.old = NoUid THEN {} ELSE DocsOfUser(res.old)
        migrated_count == SumOver(ledger, docs)
        call(n, writes, failed) ==
            LedgerCall("count", u, NoKey, "", n, writes, FALSE, failed)
    IN
    /\ IF count = 0 /\ res.old # NoUid /\ docs # {}
       THEN \/ /\ fail = "none"
               /\ ledger' = MigrateDocs(ledger, docs, res.current)
               /\ last' = call(migrated_count, migrated_count, FALSE)
            \/ /\ fail = "raise"
               /\ \E S \in SUBSET docs :
                     /\ S # docs
                     /\ ledger' = MigrateDocs(ledger, S, res.current)
                     /\ last' = call(0, SumOver(ledger, S), TRUE)
       ELSE /\ fail = "none"
            /\ UNCHANGED ledger
            /\ last' = call(count, 0, FALSE)
    /\ UNCHANGED <<users, cache, projects, sessions, now, sweep, gen>>

Count ==
    \E u \in LedgerIds, fail \in {"none", "raise"} :
        get_hidden_projects_count(u, fail)

(***************************************************************************)
(* isHidden.                                                                *)
(***************************************************************************)
(* What is_project_hidden returns in the current state. *)
IsHiddenAnswer(u, key) ==
    LET res == resolve_user_id_for_query(u) IN
    \/ DocsOfPair(res.current, key) # {}
    \/ res.old # NoUid /\ DocsOfPair(res.old, key) # {}

is_project_hidden(u, project_id) ==
    LET res == resolve_user_id_for_query(u)
        key == ToStr(project_id)
        docs == DocsOfPair(res.current, key)
        docs_old == IF res.old = NoUid THEN {} ELSE DocsOfPair(res.old, key)
        call(found, writes) ==
            LedgerCall("isHidden", u, key, "", found, writes, FALSE, FALSE)
    IN
    /\ IF docs = {} /\ docs_old # {}
       THEN /\ \E r \in docs_old :
                  ledger' = BagPut(BagDrop(ledger, r, 1), Migrated(r, res.current), 1)
            /\ last' = call(TRUE, 1)
       ELSE /\ UNCHANGED ledger
            /\ last' = call(docs # {}, 0)
    /\ UNCHANGED <<users, cache, projects, sessions, now, sweep, gen>>

IsHidden ==
    \E u \in LedgerIds, project_id \in LedgerIdValues :
        is_project_hidden(u, project_id)

(***************************************************************************)
(* Ordered reads of the ledger: the documents as result items, most        *)
(* recent hidden_at first; documents of equal hidden_at in any order.       *)
(***************************************************************************)
RecentLimit == 10

Item(r) == [project_id |-> r.project_id, hidden_at |-> r.hidden_at,
            hidden_method |-> r.hidden_method]

Min(a, b) == IF a <= b THEN a ELSE b

Occurrences(seq, x) == Cardinality({i \in DOMAIN seq : seq[i] = x})

IsDescending(seq) ==
    \A i, j \in DOMAIN seq : i < j => seq[i].hidden_at >= seq[j].hidden_at

(* order_by('hidden_at', direction='DESCENDING') over the documents S:    *)
(* every sequence that holds each document as often as it is stored, most  *)
(* recent first, built by taking any of the most recent documents first.   *)
RECURSIVE OrderedBag(_)
OrderedBag(b) ==
    IF DOMAIN b = {} THEN {<<>>}
    ELSE LET top == {r \in DOMAIN b :
                        \A x \in DOMAIN b : r.hidden_at >= x.hidden_at}
         IN  UNION {{<<r>> \o t : t \in OrderedBag(BagDrop(b, r, 1))} : r \in top}

OrderedDocs(S) == OrderedBag([r \in S |-> ledger[r]])

Items(seq) == [i \in DOMAIN seq |-> Item(seq[i])]

FirstN(seq, n) == SubSeq(seq, 1, Min(n, Len(seq)))

(* list.sort(key=hidden_at, reverse=True) *)
SortedDescending(seq) ==
    {t \in [DOMAIN seq -> SeqToSet(seq)] :
        /\ \A x \in SeqToSet(seq) : Occurrences(t, x) = Occurrences(seq, x)
        /\ IsDescending(t)}

(* datetime.isoformat() of the hidden_at of each item (lines 297-300). *)
IsoFormat(t) == [iso |-> t]

IsoItems(seq) == [i \in DOMAIN seq |-> [seq[i] EXCEPT !.hidden_at = IsoFormat(@)]]

(* A count by method that counts every document. *)
CountByMethod_All(S, m) == SumOver(ledger, S)

(* Lines 277-284, 303-308: method_counts.get(m, 0). *)
CountByMethod(S, m) == SumOver(ledger, {r \in S : r.hidden_method = m})

(***************************************************************************)
(* stats.  fail = "raise": the migration raises and the call returns the   *)
(* empty statistics, with nothing written (batch, line 266) or the         *)
(* documents updated so far left updated (db is None, line 271).            *)
(***************************************************************************)
EmptyStats == [total |-> 0, recent |-> <<>>]

get_hidden_projects_stats(u, fail) ==
    LET res == resolve_user_id_for_query(u)
        docs_new == DocsOfUser(res.current)
        docs_old == IF res.old = NoUid THEN {} ELSE DocsOfUser(res.old)
        migrates == docs_new = {} /\ docs_old # {}
        docs == IF migrates THEN docs_old ELSE docs_new
        call(r, writes, failed) ==
            LedgerCall("ledgerStats", u, NoKey, "", r, writes, FALSE, failed)
    IN
    /\ \/ /\ fail = "none"
          /\ ledger' = IF migrates THEN MigrateDocs(ledger, docs_old, res.current)
                       ELSE ledger
          /\ \E recent \in {IsoItems(FirstN(Items(seq), RecentLimit)) :
                               seq \in OrderedDocs(docs)} :
                last' = call([total |-> SumOver(ledger, docs),
                              by_method |->
                                 [manual |-> CountByMethod(docs, "manual"),
                                  auto_similar |-> CountByMethod(docs, "auto_similar"),
                                  category |-> CountByMethod(docs, "category"),
                                  feedback_based |-> CountByMethod(docs, "feedback_based")],
                              recent |-> recent],
                             IF migrates THEN SumOver(ledger, docs_old) ELSE 0, FALSE)
       \/ /\ fail = "raise"
          /\ migrates
          /\ \E S \in SUBSET docs_old :
                /\ S # docs_old
                /\ ledger' = MigrateDocs(ledger, S, res.current)
                /\ last' = call(EmptyStats, SumOver(ledger, S), TRUE)
    /\ UNCHANGED <<users, cache, projects, sessions, now, sweep, gen>>

LedgerStats ==
    \E u \in LedgerIds, fail \in {"none", "raise"} :
        get_hidden_projects_stats(u, fail)

(***************************************************************************)
(* paginate.  The migration of line 524 starts with `from ..db import db`   *)
(* inside the package `web`, which is imported as a top-level package       *)
(* (functions/main.py line 35: `from web.app import app`): the import       *)
(* raises ImportError (attempted relative import beyond top-level package), *)
(* the handler of line 577 returns the empty page, and nothing is written.  *)
(***************************************************************************)
(* `from ..db import db` finding a module. *)
ImportParentDb_Found == TRUE

ImportParentDb == FALSE

TotalPages(total, limit) ==
    IF total > 0 THEN (total + limit - 1) \div limit ELSE 0

(* A slice that always starts at the first result. *)
Page_First(all_results, page, limit) == FirstN(all_results, limit)

(* Lines 546-547: all_results[skip:skip + limit]. *)
Page(all_results, page, limit) ==
    LET skip == (page - 1) * limit
    IN  SubSeq(all_results, skip + 1, Min(skip + limit, Len(all_results)))

PageResult(all_results, page, limit) ==
    [projects |-> IsoItems(Page(all_results, page, limit)),
     total |-> Len(all_results),
     page |-> page, limit |-> limit,
     total_pages |-> TotalPages(Len(all_results), limit)]

ErrorPage(page, limit) ==
    [projects |-> <<>>, total |-> 0, page |-> page, limit |-> limit,
     total_pages |-> 0]

get_all_hidden_projects(u, page, limit) ==
    LET res == resolve_user_id_for_query(u)
        fetch_limit == limit * page + PaginateBuffer
        docs_old == IF res.old = NoUid THEN {} ELSE DocsOfUser(res.old)
        call(r, writes, failed) ==
            LedgerCall("paginate", u, NoKey, "", r, writes, FALSE, failed)
    IN
    /\ \E all_results \in {FirstN(Items(seq), fetch_limit) :
                                seq \in OrderedDocs(DocsOfUser(res.current))} :
         IF Len(all_results) < limit /\ docs_old # {}
         THEN IF ImportParentDb
              THEN \E old_seq \in OrderedDocs(docs_old), S \in SUBSET docs_old :
                     /\ SumOver(ledger, S) = Min(SumOver(ledger, docs_old), BatchLimit)
                     /\ ledger' = MigrateDocs(ledger, S, res.current)
                     /\ \E merged \in SortedDescending(
                                all_results \o FirstN(Items(old_seq), limit)) :
                           last' = call(PageResult(merged, page, limit),
                                        SumOver(ledger, S), FALSE)
              ELSE /\ UNCHANGED ledger
                   /\ last' = call(ErrorPage(page, limit), 0, TRUE)
         ELSE /\ UNCHANGED ledger
              /\ last' = call(PageResult(all_results, page, limit), 0, FALSE)
    /\ UNCHANGED <<users, cache, projects, sessions, now, sweep, gen>>

PageArgs == {<<1, 2>>, <<2, 1>>}

Paginate ==
    \E u \in LedgerIds, a \in PageArgs :
        get_all_hidden_projects(u, a[1], a[2])

(***************************************************************************)
(* The five ledger operations in any sequential order, at one reading of    *)
(* the clock; and the operations that write timestamps or move records,     *)
(* with time passing between them.                                          *)
(***************************************************************************)
NextLedger == Record \/ Count \/ IsHidden \/ LedgerStats \/ Paginate

SpecLedger == Init /\ [][NextLedger]_vars

NextLedgerClock == Tick \/ Record \/ Count

SpecLedgerClock == Init /\ [][NextLedgerClock]_vars

(***************************************************************************)
(* The per-user refresh, refresh_user_cache, and the sweep that dispatches  *)
(* it, scheduled_cache_refresh.  Here `sweep` holds the position of the     *)
(* dispatching request, the user documents still to visit, its counters    *)
(* and `tasks`: for each user id a refresh was started for, the position   *)
(* of that refresh, its local variables (all_projects, the projects still  *)
(* to hide, hidden_project_ids, errors), its result, whether the user's    *)
(* cache was fresh when the refresh started, and the trace of the remote   *)
(* calls and cache writes it has issued.  Each remote call and each        *)
(* database operation of a refresh is one step; refreshes of different     *)
(* users run in threads and interleave.                                     *)
(***************************************************************************)
RefreshIds == {"N", "B"}

UpstreamIds == {StrId("7"), StrId("p1"), NoId}

(* The lists the Project Fetcher can return: no project listed twice. *)
UpstreamLists ==
    {l \in SeqsUpTo({Project(v) : v \in UpstreamIds}, MaxLen) :
        \A i, j \in DOMAIN l : i # j => l[i] # l[j]}

(* Python truth of a project id (line 382). *)
Truthy(v) == v # NoId /\ v # StrId("")

(* The order-preserving selections of a list (lines 366-376). *)
RECURSIVE Selections(_)
Selections(l) ==
    IF l = <<>> THEN {<<>>}
    ELSE LET rest == Selections(Tail(l))
         IN  rest \cup {<<Head(l)>> \o r : r \in rest}

RECURSIVE Without(_, _)
Without(l, ids) ==
    IF l = <<>> THEN <<>>
    ELSE IF Head(l).id \in SeqToSet(ids) THEN Without(Tail(l), ids)
         ELSE <<Head(l)>> \o Without(Tail(l), ids)

(* What upstream lists after the hide calls: the projects listed before,   *)
(* without those whose hide call succeeded.                                 *)
UpstreamAfterHide(all_projects, hidden_project_ids) ==
    Without(all_projects, hidden_project_ids)

NewTask(u) ==
    [pc |-> "lookup", all_projects |-> <<>>, to_hide |-> <<>>,
     hidden_project_ids |-> <<>>, errors |-> <<>>, success |-> FALSE,
     fresh |-> is_cache_fresh(u, DefaultMaxAgeHours), trace |-> <<>>]

HasTask(u) == "tasks" \in DOMAIN sweep /\ u \in DOMAIN sweep.tasks

InitAt(hours, cached) ==
    /\ users = UserRecords
    /\ ledger = <<>>
    /\ last = NoOp
    /\ gen = [u \in CallerIds |-> NoGen]
    /\ now \in hours
    /\ sweep = [pc |-> "idle"]
    /\ \E S \in cached :
          /\ cache = [u \in S |-> [user_id |-> u, total_count |-> 1,
                                    cached_at |-> Ts(0), last_updated |-> Ts(0)]]
          /\ projects = [u \in CallerIds |->
                            IF u \in S THEN ("7" :> Project(StrId("7"))) ELSE <<>>]
    /\ \E S \in SUBSET RefreshIds : sessions \in [S -> SessionDocs]

(* Any of the users has a cache entry, written in this hour. *)
InitRefresh == InitAt({0}, SUBSET RefreshIds)

(* Every user has a cache entry, written MaxHour hours ago. *)
InitSweeps == InitAt({MaxHour}, {RefreshIds})

(* Lines 65-86: the listing of the user documents and the counters. *)
DispatchStart ==
    /\ sweep.pc = "idle"
    /\ \E listing_fails \in BOOLEAN :
          sweep' = IF listing_fails
                   THEN [pc |-> "failed", tasks |-> <<>>]
                   ELSE [pc |-> "dispatch", todo |-> DOMAIN users,
                         total_users |-> Cardinality(DOMAIN users),
                         started |-> 0, skipped |-> 0, tasks |-> <<>>]
    /\ UNCHANGED <<users, cache, projects, ledger, sessions, now, last, gen>>

(* Lines 101-147: one iteration of the loop over the user documents. *)
DispatchUser ==
    /\ sweep.pc = "dispatch"
    /\ \E k \in sweep.todo, lookup_raises \in BOOLEAN :
         LET user_id == IF users[k].firebase_uid # NoUid
                        THEN users[k].firebase_uid ELSE k
             skip == [sweep EXCEPT !.todo = @ \ {k}, !.skipped = @ + 1]
         IN
         sweep' =
            IF lookup_raises THEN skip
            ELSE IF user_id \notin DOMAIN sessions THEN skip
            ELSE IF sessions[user_id].is_valid = "False" THEN skip
            ELSE [sweep EXCEPT !.todo = @ \ {k}, !.started = @ + 1,
                               !.tasks = SetDoc(@, user_id, NewTask(user_id))]
    /\ UNCHANGED <<users, cache, projects, ledger, sessions, now, last, gen>>

(* A response that is sent when every refresh that was started is over. *)
DispatchReturn_Joins ==
    /\ sweep.pc = "dispatch"
    /\ sweep.todo = {}
    /\ \A u \in DOMAIN sweep.tasks : sweep.tasks[u].pc = "done"
    /\ sweep' = [sweep EXCEPT !.pc = "returned"]
    /\ UNCHANGED <<users, cache, projects, ledger, sessions, now, last, gen>>

(* Lines 149-162: the summary and the response. *)
DispatchReturn ==
    /\ sweep.pc = "dispatch"
    /\ sweep.todo = {}
    /\ sweep' = [sweep EXCEPT !.pc = "returned"]
    /\ UNCHANGED <<users, cache, projects, ledger, sessions, now, last, gen>>

(* refresh-one: refresh_user_cache called for one user, outside a sweep. *)
RefreshOne ==
    /\ sweep.pc = "idle"
    /\ \E u \in RefreshIds :
          sweep' = [pc |-> "one", tasks |-> (u :> NewTask(u))]
    /\ UNCHANGED <<users, cache, projects, ledger, sessions, now, last, gen>>


(***************************************************************************)
(* The steps of refresh_user_cache(user_id).  Ev is an entry of the trace:  *)
(* the call issued, the project id it was issued for and whether it came    *)
(* back with a success.                                                     *)
(***************************************************************************)
Ev(name, id, ok) == [ev |-> name, id |-> id, ok |-> ok]

Task(u) == sweep.tasks[u]

At(u, pc) == HasTask(u) /\ Task(u).pc = pc

(* return {'success': ...}: the refresh is over. *)
Return(t, ok) == [t EXCEPT !.pc = "done", !.success = ok]

Issued(t, name, id, ok) == [t EXCEPT !.trace = Append(@, Ev(name, id, ok))]

ProfileOutcomes == {"found", "missing", "raised"}

(* Lines 296-319: the session record, is_valid, the cookie, the profile. *)
TaskLookup ==
    \E u \in RefreshIds, lookup_raises \in BOOLEAN, profile \in ProfileOutcomes :
        /\ At(u, "lookup")
        /\ sweep' = [sweep EXCEPT !.tasks[u] =
              IF lookup_raises THEN Return(@, FALSE)
              ELSE IF u \notin DOMAIN sessions THEN Return(@, FALSE)
              ELSE IF sessions[u].is_valid = "False" THEN Return(@, FALSE)
              ELSE IF ~sessions[u].sid THEN Return(@, FALSE)
              ELSE IF profile # "found" THEN Return(@, FALSE)
              ELSE [@ EXCEPT !.pc = "verify"]]
        /\ UNCHANGED <<users, cache, projects, ledger, sessions, now, last, gen>>

RemoteOutcomes == {"ok", "failed", "raised"}

(* A verification whose result is not looked at. *)
TaskVerify_NoGate ==
    \E u \in RefreshIds, outcome \in RemoteOutcomes :
        /\ At(u, "verify")
        /\ sweep' = [sweep EXCEPT !.tasks[u] =
              [Issued(@, "verify", NoId, outcome = "ok") EXCEPT !.pc = "fetch"]]
        /\ UNCHANGED <<users, cache, projects, ledger, sessions, now, last, gen>>

(* Lines 321-326: verify_respondent_authentication(cookies). *)
TaskVerify ==
    \E u \in RefreshIds, outcome \in RemoteOutcomes :
        /\ At(u, "verify")
        /\ sweep' = [sweep EXCEPT !.tasks[u] =
              LET t == Issued(@, "verify", NoId, outcome = "ok")
              IN  IF outcome = "ok" THEN [t EXCEPT !.pc = "fetch"]
                  ELSE Return(t, FALSE)]
        /\ UNCHANGED <<users, cache, projects, ledger, sessions, now, last, gen>>

(* What one fetch can return: any list for refresh-one, the lists of the   *)
(* sequential sweep for the refreshes that a sweep runs side by side.      *)
Fetchable == IF sweep.pc = "one" THEN UpstreamLists ELSE FetchedLists

(* Lines 331-341: fetch_all_respondent_projects(use_cache=False). *)
TaskFetch ==
    \E u \in RefreshIds, raised \in BOOLEAN, fetched \in Fetchable :
        /\ At(u, "fetch")
        /\ sweep' = [sweep EXCEPT !.tasks[u] =
              LET t == Issued(@, "fetch", NoId, ~raised)
              IN  IF raised THEN Return(t, FALSE)
                  ELSE IF fetched = <<>> THEN [t EXCEPT !.pc = "store_empty"]
                  ELSE [t EXCEPT !.pc = "filters", !.all_projects = fetched]]
        /\ UNCHANGED <<users, cache, projects, ledger, sessions, now, last, gen>>

CacheWriteFails == {"none", "early", "batch"}

(* Lines 343-353: nothing fetched, the cache is replaced by the empty list. *)
TaskStoreEmpty ==
    \E u \in RefreshIds, fail \in CacheWriteFails :
        /\ At(u, "store_empty")
        /\ refresh_project_cache(u, <<>>, 0, fail)
        /\ sweep' = [sweep EXCEPT !.tasks[u] =
              Return(Issued(@, "replaceAll", NoId, fail = "none"), TRUE)]
        /\ UNCHANGED <<users, ledger, sessions, now>>

(* Lines 355-376: load_user_filters, hide_using_ai and the projects that   *)
(* should_hide_project selects.                                            *)
TaskFilters ==
    \E u \in RefreshIds, raised \in BOOLEAN, hide_using_ai \in BOOLEAN :
        /\ At(u, "filters")
        /\ \E projects_to_hide \in Selections(Task(u).all_projects) :
              sweep' = [sweep EXCEPT !.tasks[u] =
                 LET t == Issued(@, "filters", NoId, ~raised)
                 IN  IF raised THEN Return(t, FALSE)
                     ELSE IF ~hide_using_ai THEN [t EXCEPT !.pc = "store"]
                     ELSE [t EXCEPT !.pc = "hide", !.to_hide = projects_to_hide]]
        /\ UNCHANGED <<users, cache, projects, ledger, sessions, now, last, gen>>

(* A loop that takes every hide call for a success. *)
TaskHide_Always ==
    \E u \in RefreshIds, outcome \in RemoteOutcomes :
        /\ At(u, "hide")
        /\ Task(u).to_hide # <<>>
        /\ sweep' = [sweep EXCEPT !.tasks[u] =
              LET project_id == Head(@.to_hide).id
                  t == Issued(@, "hide", project_id, outcome = "ok")
              IN  IF ~Truthy(project_id) THEN [@ EXCEPT !.to_hide = Tail(@)]
                  ELSE [t EXCEPT !.pc = "log",
                                 !.hidden_project_ids = Append(@, project_id)]]
        /\ UNCHANGED <<users, cache, projects, ledger, sessions, now, last, gen>>

(* Lines 380-406: the next project to hide: skipped when its id is falsy,   *)
(* else hide_project_via_api is called; on success the id is appended to    *)
(* hidden_project_ids, otherwise to errors.                                 *)
TaskHide ==
    \E u \in RefreshIds, outcome \in RemoteOutcomes :
        /\ At(u, "hide")
        /\ Task(u).to_hide # <<>>
        /\ sweep' = [sweep EXCEPT !.tasks[u] =
              LET project_id == Head(@.to_hide).id
                  t == Issued(@, "hide", project_id, outcome = "ok")
              IN  IF ~Truthy(project_id) THEN [@ EXCEPT !.to_hide = Tail(@)]
                  ELSE IF outcome = "ok"
                  THEN [t EXCEPT !.pc = "log",
                                 !.hidden_project_ids = Append(@, project_id)]
                  ELSE [t EXCEPT !.to_hide = Tail(@),
                                 !.errors = Append(@, project_id)]]
        /\ UNCHANGED <<users, cache, projects, ledger, sessions, now, last, gen>>

(* The failures of the ledger write that record_project_hidden swallows    *)
(* (preference_learner.py, lines 60-63); the write is refused when the     *)
(* ledger holds MaxRecords documents and the pair is not among them.       *)
LedgerWriteFails(u, project_id) ==
    IF NumDocs < MaxRecords
       \/ ExistingDocs(resolve_user_id_for_query(u).current, ToStr(project_id)) # {}
    THEN {"none", "early", "counter"}
    ELSE {"early"}

(* Lines 390-399: record_project_hidden(..., hidden_method='ai_auto') for  *)
(* the project that was just hidden.                                       *)
TaskLog ==
    \E u \in RefreshIds :
        /\ At(u, "log")
        /\ LET project_id == Head(Task(u).to_hide).id
           IN  \E fail \in LedgerWriteFails(u, project_id) :
                 /\ log_hidden_project(u, project_id, "ai_auto", fail)
                 /\ sweep' = [sweep EXCEPT !.tasks[u] =
                       [Issued(@, "record", project_id, fail # "early")
                          EXCEPT !.pc = "hide", !.to_hide = Tail(@)]]
        /\ UNCHANGED <<cache, projects, sessions, now, gen>>

MarkFails == {"none", "early", "update"}

(* Lines 409-411: after the last hide call, mark_projects_hidden_in_cache   *)
(* with hidden_project_ids, when there are any.                             *)
TaskMark ==
    \E u \in RefreshIds, fail \in MarkFails :
        /\ At(u, "hide")
        /\ Task(u).to_hide = <<>>
        /\ IF Task(u).hidden_project_ids = <<>>
           THEN /\ sweep' = [sweep EXCEPT !.tasks[u].pc = "store"]
                /\ UNCHANGED <<cache, projects, last, gen>>
           ELSE /\ mark_projects_hidden_in_cache(u, Task(u).hidden_project_ids, fail)
                /\ sweep' = [sweep EXCEPT !.tasks[u] =
                      [Issued(@, "deleteSet", NoId, last'.result)
                         EXCEPT !.pc = "refetch"]]
        /\ UNCHANGED <<users, ledger, sessions, now>>

(* Lines 414-428: the second fetch; when it raises, all_projects keeps the  *)
(* list of the first fetch.                                                 *)
TaskRefetch ==
    \E u \in RefreshIds, raised \in BOOLEAN :
        /\ At(u, "refetch")
        /\ sweep' = [sweep EXCEPT !.tasks[u] =
              LET t == Issued(@, "refetch", NoId, ~raised)
              IN  IF raised THEN [t EXCEPT !.pc = "store"]
                  ELSE [t EXCEPT !.pc = "store",
                           !.all_projects =
                               UpstreamAfterHide(@, t.hidden_project_ids)]]
        /\ UNCHANGED <<users, cache, projects, ledger, sessions, now, last, gen>>

(* A final write that goes to one entry whoever the refresh is for. *)
TaskStore_Shared ==
    \E u \in RefreshIds, fail \in CacheWriteFails :
        /\ At(u, "store")
        /\ refresh_project_cache("N", Task(u).all_projects,
                                 Len(Task(u).all_projects), fail)
        /\ sweep' = [sweep EXCEPT !.tasks[u] =
              Return(Issued(@, "replaceAll", NoId, fail = "none"), TRUE)]
        /\ UNCHANGED <<users, ledger, sessions, now>>

(* Lines 430-440: refresh_project_cache(all_projects, total_count); its    *)
(* result is not looked at.                                                 *)
TaskStore ==
    \E u \in RefreshIds, fail \in CacheWriteFails :
        /\ At(u, "store")
        /\ refresh_project_cache(u, Task(u).all_projects,
                                 Len(Task(u).all_projects), fail)
        /\ sweep' = [sweep EXCEPT !.tasks[u] =
              Return(Issued(@, "replaceAll", NoId, fail = "none"), TRUE)]
        /\ UNCHANGED <<users, ledger, sessions, now>>

TaskStep ==
    \/ TaskLookup \/ TaskVerify \/ TaskFetch \/ TaskStoreEmpty \/ TaskFilters
    \/ TaskHide \/ TaskLog \/ TaskMark \/ TaskRefetch \/ TaskStore

DispatchStep == DispatchStart \/ DispatchUser \/ DispatchReturn

(* One refresh, started by refresh-one. *)
NextRefresh == RefreshOne \/ TaskStep

SpecRefresh == InitRefresh /\ [][NextRefresh]_vars

(* The dispatching sweep and the refreshes it starts. *)
NextDispatch == DispatchStep \/ TaskStep

SpecDispatch == InitRefresh /\ [][NextDispatch]_vars

(***************************************************************************)
(* keep_sessions_alive.  Here `sweep` holds the position of the sweep, the  *)
(* session records still to visit, its two counters and `checks`: for each *)
(* user id a verification was started for, the position of that            *)
(* verification and the result of verify_respondent_authentication.        *)
(***************************************************************************)
(* update_session_key_status(user_id, valid): it stores the flag in the    *)
(* session record of the user.                                             *)
update_session_key_status(u, valid) ==
    [sessions EXCEPT ![u].is_valid = IF valid THEN "True" ELSE "False"]

HasCheck(u) == "checks" \in DOMAIN sweep /\ u \in DOMAIN sweep.checks

Check(u) == sweep.checks[u]

(* Lines 192-201: the listing of the session records and the counters. *)
KeepStart ==
    /\ sweep.pc = "idle"
    /\ \E listing_fails \in BOOLEAN :
          sweep' = IF listing_fails
                   THEN [pc |-> "failed", checks |-> <<>>]
                   ELSE [pc |-> "keepalive", todo |-> DOMAIN sessions,
                         listed |-> sessions,
                         started |-> 0, skipped |-> 0, checks |-> <<>>]
    /\ UNCHANGED <<users, cache, projects, ledger, sessions, now, last, gen>>

(* An iteration that does not look at is_valid. *)
KeepSession_NoSkip ==
    /\ sweep.pc = "keepalive"
    /\ \E k \in sweep.todo :
         sweep' =
            IF ~sessions[k].sid
            THEN [sweep EXCEPT !.todo = @ \ {k}, !.skipped = @ + 1]
            ELSE [sweep EXCEPT !.todo = @ \ {k}, !.started = @ + 1,
                     !.checks = SetDoc(@, k, [pc |-> "verify", result |-> "none"])]
    /\ UNCHANGED <<users, cache, projects, ledger, sessions, now, last, gen>>

(* Lines 227-249: one iteration of the loop over the session records. *)
KeepSession ==
    /\ sweep.pc = "keepalive"
    /\ \E k \in sweep.todo :
         sweep' =
            IF ~sessions[k].sid
            THEN [sweep EXCEPT !.todo = @ \ {k}, !.skipped = @ + 1]
            ELSE IF sessions[k].is_valid = "False"
            THEN [sweep EXCEPT !.todo = @ \ {k}, !.skipped = @ + 1]
            ELSE [sweep EXCEPT !.todo = @ \ {k}, !.started = @ + 1,
                     !.checks = SetDoc(@, k, [pc |-> "verify", result |-> "none"])]
    /\ UNCHANGED <<users, cache, projects, ledger, sessions, now, last, gen>>

(* Lines 251-256: the summary; the function returns. *)
KeepReturn ==
    /\ sweep.pc = "keepalive"
    /\ sweep.todo = {}
    /\ sweep' = [sweep EXCEPT !.pc = "kept"]
    /\ UNCHANGED <<users, cache, projects, ledger, sessions, now, last, gen>>

(* Lines 205-209, 219: verify_respondent_authentication(cookies). *)
CheckVerify ==
    \E u \in RefreshIds, outcome \in RemoteOutcomes :
        /\ HasCheck(u) /\ Check(u).pc = "verify"
        /\ sweep' = [sweep EXCEPT !.checks[u] =
              [pc |-> IF outcome = "raised" THEN "handler" ELSE "update",
               result |-> outcome]]
        /\ UNCHANGED <<users, cache, projects, ledger, sessions, now, last, gen>>

(* Lines 209-217: update_session_key_status with the verification result. *)
CheckUpdate ==
    \E u \in RefreshIds :
        /\ HasCheck(u) /\ Check(u).pc = "update"
        /\ sessions' = update_session_key_status(u, Check(u).result = "ok")
        /\ sweep' = [sweep EXCEPT !.checks[u].pc = "done"]
        /\ UNCHANGED <<users, cache, projects, ledger, now, last, gen>>

(* An except clause that only logs. *)
CheckHandler_LogOnly ==
    \E u \in RefreshIds :
        /\ HasCheck(u) /\ Check(u).pc = "handler"
        /\ sweep' = [sweep EXCEPT !.checks[u].pc = "done"]
        /\ UNCHANGED <<users, cache, projects, ledger, sessions, now, last, gen>>

(* Lines 219-225: the except clause: update_session_key_status(False). *)
CheckHandler ==
    \E u \in RefreshIds :
        /\ HasCheck(u) /\ Check(u).pc = "handler"
        /\ sessions' = update_session_key_status(u, FALSE)
        /\ sweep' = [sweep EXCEPT !.checks[u].pc = "done"]
        /\ UNCHANGED <<users, cache, projects, ledger, now, last, gen>>

KeepStep == KeepStart \/ KeepSession \/ KeepReturn

CheckStep == CheckVerify \/ CheckUpdate \/ CheckHandler

NextKeepAlive == KeepStep \/ CheckStep

SpecKeepAlive == InitRefresh /\ [][NextKeepAlive]_vars

(* The three sweeps.  The loops of refresh_stale_caches,                   *)
(* scheduled_cache_refresh and keep_sessions_alive run in a thread of      *)
(* their own and make no call without a timeout, so an iteration that can  *)
(* be taken is taken; nothing is assumed of the refreshes and the          *)
(* verifications that a sweep has started.                                  *)
NextSweeps == NextSweep \/ NextDispatch \/ NextKeepAlive

SpecSweeps ==
    /\ InitSweeps /\ [][NextSweeps]_vars
    /\ WF_vars(SweepUser) /\ WF_vars(SweepFinish)
    /\ WF_vars(DispatchUser) /\ WF_vars(DispatchReturn)
    /\ WF_vars(KeepSession) /\ WF_vars(KeepReturn)

(***************************************************************************)
(* The store on a failing backend: the writes of the cache with one of     *)
(* their backend calls raising, record with any of its failures, and the   *)
(* reads, returning normally or ending in their exception handler.  The    *)
(* record of a read that ended in its handler has raised = TRUE.           *)
(***************************************************************************)
InitFaults ==
    /\ users = UserRecords
    /\ ledger = <<>>
    /\ sessions = <<>>
    /\ last = NoOp
    /\ sweep = [pc |-> "idle"]
    /\ gen = [u \in CallerIds |-> NoGen]
    /\ now = 0
    /\ \E S \in SUBSET CacheIds :
          /\ cache = [u \in S |-> [user_id |-> u, total_count |-> 1,
                                    cached_at |-> Ts(0), last_updated |-> Ts(0)]]
          /\ projects = [u \in CallerIds |->
                            IF u \in S THEN ("7" :> Project(StrId("7"))) ELSE <<>>]

FailedReplaceAll ==
    \E u \in CacheIds, plist \in UpstreamLists,
       total_count \in TotalCountArgs, fail \in {"early", "batch"} :
        /\ refresh_project_cache(u, plist, total_count, fail)
        /\ UNCHANGED <<users, ledger, sessions, now, sweep>>

FailedDeleteSet ==
    \E u \in CacheIds, project_ids \in SeqsUpTo(DocIdValues, MaxLen),
       fail \in {"early", "update"} :
        /\ project_ids # <<>>
        /\ mark_projects_hidden_in_cache(u, project_ids, fail)
        /\ UNCHANGED <<users, ledger, sessions, now, sweep>>

FailedRecord ==
    \E u \in LedgerIds, project_id \in LedgerIdValues, hidden_method \in Methods,
       fail \in {"early", "counter"} :
        /\ log_hidden_project(u, project_id, hidden_method, fail)
        /\ UNCHANGED <<cache, projects, sessions, now, sweep, gen>>

(* A read of the cache: what its body computes, or, when a backend read   *)
(* raises, what its except clause returns.                                 *)
CacheRead(name, u, raised, result, on_exception) ==
    /\ last' = [op |-> name, user |-> u, raised |-> raised,
                result |-> IF raised THEN on_exception ELSE result,
                pred |-> NoPred]
    /\ UNCHANGED <<users, cache, projects, ledger, sessions, now, sweep, gen>>

(* is_cache_fresh with its except clause (cache_manager.py, 146-148). *)
IsFreshOrRaises ==
    \E u \in CallerIds, raised \in BOOLEAN :
        CacheRead("isFresh", u, raised, is_cache_fresh(u, DefaultMaxAgeHours), FALSE)

(* get_cached_projects with its except clause (cache_manager.py, 194-196). *)
GetProjectsOrRaises ==
    \E u \in CallerIds, raised \in BOOLEAN :
        CacheRead("getProjects", u, raised, get_cached_projects(u), NoResult)

(* get_cache_stats with its except clause (cache_manager.py, 356-363). *)
CacheStatsOrRaises ==
    \E u \in CallerIds, raised \in BOOLEAN :
        CacheRead("stats", u, raised, get_cache_stats(u),
                  [exists |-> FALSE, cached_at |-> MissingTs,
                   last_updated |-> MissingTs, total_count |-> 0])

(* hidden_projects_tracker.py, lines 161-163: a read of count raises. *)
CountRaises ==
    \E u \in LedgerIds :
        /\ last' = LedgerCall("count", u, NoKey, "", 0, 0, FALSE, TRUE)
        /\ UNCHANGED <<users, cache, projects, ledger, sessions, now, sweep, gen>>

(* hidden_projects_tracker.py, lines 350-352: a read of isHidden, or the   *)
(* update that migrates the record, raises.                                 *)
IsHiddenRaises ==
    \E u \in LedgerIds, project_id \in LedgerIdValues :
        /\ last' = LedgerCall("isHidden", u, ToStr(project_id), "", FALSE, 0, FALSE, TRUE)
        /\ UNCHANGED <<users, cache, projects, ledger, sessions, now, sweep, gen>>

NextFaults ==
    \/ FailedReplaceAll \/ FailedDeleteSet \/ FailedRecord
    \/ IsFreshOrRaises \/ GetProjectsOrRaises \/ CacheStatsOrRaises
    \/ Count \/ CountRaises \/ IsHidden \/ IsHiddenRaises

SpecFaults == InitFaults /\ [][NextFaults]_vars

(***************************************************************************)
(* The identity resolver as a call, over any users collection: documents    *)
(* under any of the caller's ids, each with or without a firebase_uid       *)
(* field that holds "N".  fail = "no_collection": users_collection is       *)
(* falsy; fail = "get": the read of the document raises; fail = "query":    *)
(* the document does not exist and the firebase_uid query raises.  The      *)
(* query has limit(1): of several matching documents it returns any one.    *)
(***************************************************************************)
UserTables ==
    UNION {[S -> [firebase_uid : {NoUid, "N"}, projects_processed_count : {0}]] :
              S \in SUBSET CallerIds}

InitResolve ==
    /\ users \in UserTables
    /\ cache = <<>>
    /\ projects = [u \in CallerIds |-> <<>>]
    /\ ledger = <<>>
    /\ sessions = <<>>
    /\ now = 0
    /\ last = NoOp
    /\ sweep = [pc |-> "idle"]
    /\ gen = [u \in CallerIds |-> NoGen]

(* Line 51: return str(user_id), None. *)
Fallback(u) == [current |-> u, old |-> NoUid]

(* Lines 41-46 that take the queried id for the key of the document. *)
FoundLegacy_Self(u, k) == [current |-> u, old |-> u]

(* Lines 41-46: old_user_id is the key of the document found. *)
FoundLegacy(u, k) == [current |-> u, old |-> k]

ResolveFails == {"none", "no_collection", "get", "query"}

Resolve ==
    \E u \in CallerIds, fail \in ResolveFails :
        /\ \/ /\ fail \in {"no_collection", "get"}
              /\ last' = [op |-> "resolve", user |-> u, fail |-> fail,
                          result |-> Fallback(u), pred |-> NoPred]
           \/ /\ fail = "query"
              /\ u \notin DOMAIN users
              /\ last' = [op |-> "resolve", user |-> u, fail |-> fail,
                          result |-> Fallback(u), pred |-> NoPred]
           \/ /\ fail = "none"
              /\ \E result \in
                     IF u \in DOMAIN users THEN {Fallback(u)}
                     ELSE IF LegacyKeysOf(u) # {}
                          THEN {FoundLegacy(u, k) : k \in LegacyKeysOf(u)}
                          ELSE {Fallback(u)} :
                    last' = [op |-> "resolve", user |-> u, fail |-> fail,
                             result |-> result, pred |-> NoPred]
        /\ UNCHANGED <<users, cache, projects, ledger, sessions, now, sweep, gen>>

NextResolve == Resolve

SpecResolve == InitResolve /\ [][NextResolve]_vars

(***************************************************************************)
(* The store entered through either id of the migrated user: the writes of  *)
(* the cache and of the ledger, each called with the key "L" of the user's  *)
(* record or with its Firebase uid "N", every backend call succeeding.      *)
(***************************************************************************)
ReplaceAllEither ==
    \E u \in LedgerIds, plist \in FetchedLists :
        /\ refresh_project_cache(u, plist, Len(plist), "none")
        /\ UNCHANGED <<users, ledger, sessions, now, sweep>>

DeleteSetEither ==
    \E u \in LedgerIds :
        /\ mark_projects_hidden_in_cache(u, <<StrId("7")>>, "none")
        /\ UNCHANGED <<users, ledger, sessions, now, sweep>>

(* A record that also removes the project from the user's cache. *)
RecordEither_Evicts ==
    \E u \in LedgerIds, project_id \in LedgerIdValues :
        /\ log_hidden_project(u, project_id, "manual", "none")
        /\ projects' = [projects EXCEPT ![resolve_user_id_for_query(u).current] =
                           ApplyOps(@, HideOps(<<project_id>>))]
        /\ UNCHANGED <<cache, sessions, now, sweep, gen>>

(* log_hidden_project reads and writes hidden_projects_log and the user's  *)
(* document only.                                                           *)
RecordEither ==
    \E u \in LedgerIds, project_id \in LedgerIdValues :
        /\ log_hidden_project(u, project_id, "manual", "none")
        /\ UNCHANGED <<cache, projects, sessions, now, sweep, gen>>

NextEither == ReplaceAllEither \/ DeleteSetEither \/ RecordEither \/ Count \/ IsHidden

SpecEither == Init /\ [][NextEither]_vars

(***************************************************************************)
(* Concurrent deleteSet calls.  mark_projects_hidden_in_cache makes three   *)
(* backend calls one after the other: the read of the parent document      *)
(* (line 391), the commit of the batch of deletes (line 429) and the        *)
(* update of the parent document (line 441); it uses no transaction, so     *)
(* the calls of two threads interleave between them.  Here `sweep` holds    *)
(* the stored count and the documents of the entry before the calls, and    *)
(* `calls`: for each thread its position, its project_ids, the              *)
(* current_count it read and its result.                                    *)
(***************************************************************************)
Threads == {"T1", "T2"}

MarkIds == SeqsUpTo(UpstreamIds, MaxLen) \ {<<>>}

InitMark ==
    /\ users = UserRecords
    /\ ledger = <<>>
    /\ sessions = <<>>
    /\ now = 0
    /\ last = NoOp
    /\ gen = [u \in CallerIds |-> NoGen]
    /\ \E plist \in UpstreamLists :
          /\ cache = ("N" :> [user_id |-> "N", total_count |-> Len(plist),
                              cached_at |-> Ts(0), last_updated |-> Ts(0)])
          /\ projects = [u \in CallerIds |->
                            IF u = "N" THEN ApplyOps(<<>>, WriteOps(plist)) ELSE <<>>]
          /\ sweep = [pc |-> "calls", stored |-> Len(plist),
                      present |-> DOMAIN ApplyOps(<<>>, WriteOps(plist)),
                      calls |-> <<>>]

HasCall(t) == "calls" \in DOMAIN sweep /\ t \in DOMAIN sweep.calls

(* Lines 383-403: the parent document is read and current_count taken. *)
MarkBegin ==
    \E t \in Threads, project_ids \in MarkIds :
        /\ sweep.pc = "calls"
        /\ ~HasCall(t)
        /\ LET current_user_id == resolve_user_id_for_query("N").current IN
           sweep' = [sweep EXCEPT !.calls = SetDoc(@, t,
                        IF current_user_id \notin DOMAIN cache
                        THEN [pc |-> "done", user |-> current_user_id,
                              ids |-> project_ids, current_count |-> 0,
                              result |-> FALSE]
                        ELSE [pc |-> "commit", user |-> current_user_id,
                              ids |-> project_ids,
                              current_count |-> cache[current_user_id].total_count,
                              result |-> FALSE])]
        /\ UNCHANGED <<users, cache, projects, ledger, sessions, now, last, gen>>

(* Lines 410-429: the deletes are committed. *)
MarkCommit ==
    \E t \in Threads :
        /\ HasCall(t)
        /\ sweep.calls[t].pc = "commit"
        /\ projects' = [projects EXCEPT ![sweep.calls[t].user] =
                           ApplyOps(@, HideOps(sweep.calls[t].ids))]
        /\ sweep' = [sweep EXCEPT !.calls[t].pc = "update"]
        /\ UNCHANGED <<users, cache, ledger, sessions, now, last, gen>>

(* Lines 435-447: new_count is computed from the current_count read at    *)
(* the start and written to the parent document.                            *)
MarkUpdate ==
    \E t \in Threads :
        /\ HasCall(t)
        /\ sweep.calls[t].pc = "update"
        /\ cache' = [cache EXCEPT ![sweep.calls[t].user] =
                        [@ EXCEPT !.total_count =
                                     NewCount(sweep.calls[t].current_count,
                                              Len(sweep.calls[t].ids)),
                                  !.last_updated = Ts(now)]]
        /\ sweep' = [sweep EXCEPT !.calls[t].pc = "done", !.calls[t].result = TRUE]
        /\ UNCHANGED <<users, projects, ledger, sessions, now, last, gen>>

NextMark == MarkBegin \/ MarkCommit \/ MarkUpdate

SpecMark == InitMark /\ [][NextMark]_vars

(***************************************************************************)
(* The sweep endpoints.  The Cloud Function scheduled_cache_refresh calls   *)
(* refresh_stale_caches, the route /scheduled/session-keepalive calls       *)
(* keep_sessions_alive and the route /scheduled/cache-refresh does its      *)
(* sweep itself; each builds its response when the sweep has ended.  A      *)
(* sweep at "failed" found its collections missing or its listing raised.   *)
(* refresh_stale_caches and keep_sessions_alive catch every exception and   *)
(* return nothing, so the except clauses of their endpoints are never       *)
(* entered.                                                                 *)
(***************************************************************************)
Endpoint ==
    IF "tasks" \in DOMAIN sweep THEN "cache-refresh"
    ELSE IF "checks" \in DOMAIN sweep THEN "session-keepalive"
    ELSE "function"

SweepEnded == sweep.pc \in {"done", "failed", "returned", "kept"}

StatusCode ==
    IF Endpoint = "cache-refresh" /\ sweep.pc = "failed" THEN 500 ELSE 200

Respond ==
    /\ SweepEnded
    /\ "status" \notin DOMAIN sweep
    /\ sweep' = [status |-> StatusCode] @@ sweep
    /\ UNCHANGED <<users, cache, projects, ledger, sessions, now, last, gen>>

NextEndpoints == NextSweep \/ DispatchStep \/ KeepStep \/ Respond

SpecEndpoints == InitSweeps /\ [][NextEndpoints]_vars

(***************************************************************************)
(* The ordered reads over a ledger that holds up to MaxStored records of    *)
(* the user N, all under the user's canonical id: record i is of project   *)
(* i, its method is one of the five the application writes, and the         *)
(* hidden_at of the records are pairwise distinct or equal two by two.      *)
(***************************************************************************)
StoredMethods == <<"manual", "auto_similar", "category", "feedback_based", "ai_auto">>

StoredRecord(i, paired) ==
    LET hidden_at == IF paired THEN i \div 2 ELSE i IN
    [user_id |-> "N", project_id |-> ToString(i), hidden_at |-> hidden_at,
     hidden_method |-> StoredMethods[(i % 5) + 1],
     updated_at |-> hidden_at, created_at |-> hidden_at]

InitStored ==
    /\ users = UserRecords
    /\ cache = <<>>
    /\ projects = [u \in CallerIds |-> <<>>]
    /\ sessions = <<>>
    /\ now = MaxStored
    /\ last = NoOp
    /\ sweep = [pc |-> "idle"]
    /\ gen = [u \in CallerIds |-> NoGen]
    /\ \E n \in 0..MaxStored, paired \in BOOLEAN :
          ledger = [r \in {StoredRecord(i, paired) : i \in 1..n} |-> 1]

StoredPageArgs == {<<1, 2>>, <<2, 1>>, <<1, 3>>, <<3, 1>>}

PaginateStored ==
    \E u \in LedgerIds, a \in StoredPageArgs :
        get_all_hidden_projects(u, a[1], a[2])

NextStored == PaginateStored \/ LedgerStats

SpecStored == InitStored /\ [][NextStored]_vars

(***************************************************************************)
(* Sequences of successful cache writes of one user.  Here `sweep` holds,   *)
(* beside its position, whether the last replaceAll was given a list whose  *)
(* ids, as strings, are non-empty and pairwise distinct, that is, whether   *)
(* it stored one document for each project of its list.                     *)
(***************************************************************************)
InitWrites ==
    /\ users = UserRecords
    /\ cache = <<>>
    /\ projects = [u \in CallerIds |-> <<>>]
    /\ ledger = <<>>
    /\ sessions = <<>>
    /\ now = 0
    /\ last = NoOp
    /\ sweep = [pc |-> "idle", distinct |-> FALSE]
    /\ gen = [u \in CallerIds |-> NoGen]

ReplaceAllOk ==
    \E u \in CacheIds, plist \in SeqsUpTo(ProjectValues, MaxLen) :
        /\ refresh_project_cache(u, plist, Len(plist), "none")
        /\ sweep' = [sweep EXCEPT !.distinct =
                        Cardinality(DOMAIN ApplyOps(<<>>, WriteOps(plist))) = Len(plist)]
        /\ UNCHANGED <<users, ledger, sessions, now>>

(* A deleteSet whose update of the parent document is lost. *)
DeleteSetOk_NoUpdate ==
    \E u \in CacheIds, project_ids \in SeqsUpTo(DocIdValues, MaxLen) :
        /\ mark_projects_hidden_in_cache(u, project_ids, "update")
        /\ UNCHANGED <<users, ledger, sessions, now, sweep>>

(* mark_projects_hidden_in_cache with every backend call succeeding. *)
DeleteSetOk ==
    \E u \in CacheIds, project_ids \in SeqsUpTo(DocIdValues, MaxLen) :
        /\ mark_projects_hidden_in_cache(u, project_ids, "none")
        /\ UNCHANGED <<users, ledger, sessions, now, sweep>>

NextWrites == ReplaceAllOk \/ DeleteSetOk

SpecWrites == InitWrites /\ [][NextWrites]_vars

(***************************************************************************)
(* The batches the store commits, by size.  An operation that writes in     *)
(* batches adds its operations to a batch one by one; `last` holds the      *)
(* number of documents the call found and the sizes of the batches it       *)
(* committed, in order.                                                     *)
(***************************************************************************)
DocCounts ==
    {0, 1, 2, BatchLimit - 1, BatchLimit, BatchLimit + 1,
     2 * BatchLimit - 1, 2 * BatchLimit, 2 * BatchLimit + 1}

(* The loops of cache_manager.py lines 279-308 and 415-429 and of          *)
(* hidden_projects_tracker.py lines 529-538: operations are added to the   *)
(* batch one by one, the batch is committed as soon as it holds 500 of     *)
(* them, and once more at the end when it holds any.  One step of the      *)
(* recursion is one commit.                                                 *)
RECURSIVE ChunkedCommits(_)
ChunkedCommits(remaining) ==
    IF remaining = 0 THEN <<>>
    ELSE IF remaining >= BatchLimit
         THEN <<BatchLimit>> \o ChunkedCommits(remaining - BatchLimit)
         ELSE <<remaining>>

(* The loops of hidden_projects_tracker.py lines 143-149 and 262-266: one  *)
(* update for every document found under the old id, then one commit.      *)
SingleCommit(found) == IF found = 0 THEN <<>> ELSE <<found>>

Batched(name, found, batches) ==
    /\ last' = [op |-> name, found |-> found, batches |-> batches, pred |-> NoPred]
    /\ UNCHANGED <<users, cache, projects, ledger, sessions, now, sweep, gen>>

(* replaceAll over `existing` documents and `written` usable projects. *)
ReplaceAllBatches ==
    \E existing \in DocCounts, written \in DocCounts :
        Batched("replaceAll", <<existing, written>>,
                ChunkedCommits(existing + written))

(* deleteSet of `total_to_delete` ids. *)
DeleteSetBatches ==
    \E total_to_delete \in DocCounts :
        Batched("deleteSet", total_to_delete, ChunkedCommits(total_to_delete))

(* The migration of count over `found` documents under the old id. *)
CountBatches ==
    \E found \in DocCounts : Batched("count", found, SingleCommit(found))

(* The migration of stats over `found` documents under the old id. *)
StatsBatches ==
    \E found \in DocCounts : Batched("ledgerStats", found, SingleCommit(found))

(* The migration of paginate: its query has limit(500). *)
PaginateBatches ==
    \E found \in DocCounts :
        Batched("paginate", found,
                IF ImportParentDb THEN ChunkedCommits(Min(found, BatchLimit))
                ELSE <<>>)

NextBatches ==
    \/ ReplaceAllBatches \/ DeleteSetBatches
    \/ CountBatches \/ StatsBatches \/ PaginateBatches

SpecBatches == Init /\ [][NextBatches]_vars

(***************************************************************************)
(* Concurrent record calls.  log_hidden_project makes its backend calls     *)
(* one after the other with no transaction: the lookup of the pair (lines   *)
(* 78-79), the update or the add of the document (lines 82-88), the read    *)
(* of the user document (lines 97-98) and the update of its counter (lines  *)
(* 101-104).  `sweep.calls` holds for each thread its position, its         *)
(* arguments, the documents its lookup returned and the current_count it    *)
(* read.                                                                    *)
(***************************************************************************)
InitRecords ==
    /\ users = UserRecords
    /\ cache = <<>>
    /\ projects = [u \in CallerIds |-> <<>>]
    /\ ledger = <<>>
    /\ sessions = <<>>
    /\ now = 0
    /\ last = NoOp
    /\ sweep = [pc |-> "records", calls |-> <<>>]
    /\ gen = [u \in CallerIds |-> NoGen]

AtRecord(t, pc) ==
    /\ "calls" \in DOMAIN sweep
    /\ sweep.pc = "records"
    /\ t \in DOMAIN sweep.calls
    /\ sweep.calls[t].pc = pc

(* Lines 57-79: the ids are resolved and the pair is looked up. *)
RecordLookup ==
    \E t \in Threads, u \in CallerIds, project_id \in LedgerIdValues,
       hidden_method \in Methods :
        /\ sweep.pc = "records"
        /\ t \notin DOMAIN sweep.calls
        /\ LET current_user_id == resolve_user_id_for_query(u).current
               key == ToStr(project_id)
               docs == ExistingDocs(current_user_id, key)
           IN  \E found \in (IF docs = {} THEN {{}} ELSE {{r} : r \in docs}) :
                  sweep' = [sweep EXCEPT !.calls = SetDoc(@, t,
                               [pc |-> "write", user |-> current_user_id,
                                pid |-> key, method |-> hidden_method,
                                docs |-> found, is_new |-> FALSE,
                                current_count |-> 0])]
        /\ UNCHANGED <<users, cache, projects, ledger, sessions, now, last, gen>>

(* Lines 81-89: the document found is updated, or a new one is added. *)
RecordWrite ==
    \E t \in Threads :
        /\ AtRecord(t, "write")
        /\ LET c == sweep.calls[t] IN
           IF c.docs # {}
           THEN /\ \E r \in c.docs :
                      ledger' = BagPut(BagDrop(ledger, r, 1),
                                       UpdatedDoc(r, c.user, c.pid, c.method), 1)
                /\ sweep' = [sweep EXCEPT !.calls[t].pc = "done"]
           ELSE /\ ledger' = BagPut(ledger, NewDoc(c.user, c.pid, c.method), 1)
                /\ sweep' = [sweep EXCEPT !.calls[t].pc = "read",
                                          !.calls[t].is_new = TRUE]
        /\ UNCHANGED <<users, cache, projects, sessions, now, last, gen>>

(* Lines 97-100: the user document is read. *)
RecordRead ==
    \E t \in Threads :
        /\ AtRecord(t, "read")
        /\ LET c == sweep.calls[t] IN
           IF c.user \in DOMAIN users
           THEN sweep' = [sweep EXCEPT
                              !.calls[t].pc = "update",
                              !.calls[t].current_count =
                                  users[c.user].projects_processed_count]
           ELSE sweep' = [sweep EXCEPT !.calls[t].pc = "done"]
        /\ UNCHANGED <<users, cache, projects, ledger, sessions, now, last, gen>>

(* Lines 101-104: the counter is written from the count that was read. *)
RecordUpdate ==
    \E t \in Threads :
        /\ AtRecord(t, "update")
        /\ users' = [users EXCEPT
                        ![sweep.calls[t].user].projects_processed_count =
                            ProcessedCount(sweep.calls[t].current_count)]
        /\ sweep' = [sweep EXCEPT !.calls[t].pc = "done"]
        /\ UNCHANGED <<cache, projects, ledger, sessions, now, last, gen>>

NextRecords == RecordLookup \/ RecordWrite \/ RecordRead \/ RecordUpdate

SpecRecords == InitRecords /\ [][NextRecords]_vars

(***************************************************************************)
(* replaceAll step by step.  refresh_project_cache makes its backend calls  *)
(* one after the other with no transaction: the set of the parent document  *)
(* (line 265), the listing of the existing documents (line 279) and one     *)
(* commit per batch (lines 286, 306, 310).  A commit is atomic; between     *)
(* two of them other calls see the documents of the batches committed so    *)
(* far.  The operators below compute what ReplaceOps and ApplyOps compute,  *)
(* without recursion, so that lists longer than one batch can be applied.   *)
(* `sweep.calls` holds for each writer its position, its list, its          *)
(* operations and the number of batches it committed; `sweep.prev` holds    *)
(* the documents stored before the calls and `sweep.reader` the position    *)
(* of a get_cached_projects call.                                           *)
(***************************************************************************)
MaxKey == BatchLimit + 2

(* The listing of a sub-collection comes in the order of the document ids. *)
StreamOrder == [i \in 1..MaxKey |-> ToString(i)]

Proj(i) == Project(StrId(ToString(i)))

Span(a, b) == [i \in 1..(b - a + 1) |-> Proj(a + i - 1)]

(* The lists given to a replaceAll that races a reader: empty, a project   *)
(* listed twice, a short list, and a list that takes two batches.          *)
RaceLists ==
    {<<>>, <<Proj(1), Proj(1)>>, Span(2, 3), Span(BatchLimit, MaxKey)}

(* The generations stored before the race. *)
PrevLists == {<<>>, Span(1, 2), Span(1, BatchLimit + 1)}

(* The lists given to two concurrent replaceAll calls. *)
ConcurrentLists == {<<>>, Span(1, 1), Span(1, 2), Span(2, 3)}

StoredAs(plist) ==
    [k \in {ToStr(plist[i].id) : i \in DOMAIN plist} |-> Project(StrId(k))]

(* Line 279: list(projects_ref.stream()). *)
ExistingInOrder(children) ==
    LET Stored(k) == k \in DOMAIN children IN SelectSeq(StreamOrder, Stored)

(* ListOps with a generated document id for every set, as add() gives. *)
ListOps_AutoIds(existing, plist) ==
    [i \in 1..Len(existing) |-> DelOp(existing[i])]
        \o [i \in DOMAIN plist |-> SetOp(ToString(MaxKey + i), plist[i])]

(* Lines 280-302: a delete for every existing document, then a set for     *)
(* every project whose str(id) is not empty, under the document id str(id). *)
ListOps(existing, plist) ==
    LET HasId(o) == o.key # "" IN
    [i \in 1..Len(existing) |-> DelOp(existing[i])]
        \o SelectSeq([i \in DOMAIN plist |-> SetOp(ToStr(plist[i].id), plist[i])],
                     HasId)

(* The operations of batch number n. *)
BatchOf(ops, n) ==
    SubSeq(ops, (n - 1) * BatchLimit + 1, Min(n * BatchLimit, Len(ops)))

(* batch.commit(): the operations take effect together, in their order. *)
CommitBatch(children, batch) ==
    LET touched == {batch[i].key : i \in DOMAIN batch}
        final(k) == batch[CHOOSE i \in DOMAIN batch :
                            /\ batch[i].key = k
                            /\ \A j \in DOMAIN batch : batch[j].key = k => j <= i]
        kept == {k \in DOMAIN children \cup touched :
                    k \in touched => final(k).type = "set"}
    IN  [k \in kept |-> IF k \in touched THEN final(k).doc ELSE children[k]]

InitReplaces(Lists) ==
    /\ users = UserRecords
    /\ ledger = <<>>
    /\ sessions = <<>>
    /\ now = 0
    /\ last = NoOp
    /\ gen = [u \in CallerIds |-> NoGen]
    /\ \E plist \in Lists :
          /\ cache = ("N" :> [user_id |-> "N", total_count |-> Len(plist),
                              cached_at |-> Ts(0), last_updated |-> Ts(0)])
          /\ projects = [u \in CallerIds |->
                            IF u = "N" THEN StoredAs(plist) ELSE <<>>]
          /\ sweep = [pc |-> "replaces", prev |-> StoredAs(plist),
                      calls |-> <<>>, reader |-> "idle"]

InitRace == InitReplaces(PrevLists)

InitConcurrent == InitReplaces(ConcurrentLists)

AtReplace(t, pc) ==
    /\ "calls" \in DOMAIN sweep
    /\ sweep.pc = "replaces"
    /\ t \in DOMAIN sweep.calls
    /\ sweep.calls[t].pc = pc

(* Lines 251-265: the parent document is set. *)
ReplaceParent(T, Lists) ==
    \E t \in T, plist \in Lists :
        /\ sweep.pc = "replaces"
        /\ t \notin DOMAIN sweep.calls
        /\ LET current_user_id == resolve_user_id_for_query("N").current IN
           /\ cache' = SetDoc(cache, current_user_id,
                              [user_id |-> current_user_id,
                               total_count |-> Len(plist),
                               cached_at |-> Ts(now), last_updated |-> Ts(now)])
           /\ sweep' = [sweep EXCEPT !.calls = SetDoc(@, t,
                           [pc |-> "list", user |-> current_user_id,
                            plist |-> plist, ops |-> <<>>, committed |-> 0])]
        /\ UNCHANGED <<users, projects, ledger, sessions, now, last, gen>>

RaceParent == ReplaceParent({"T1"}, RaceLists)

ConcurrentParent == ReplaceParent(Threads, ConcurrentLists)

(* Lines 275-302: the existing documents are listed and the operations     *)
(* of the call are fixed.                                                   *)
ReplaceList ==
    \E t \in Threads :
        /\ AtReplace(t, "list")
        /\ LET c == sweep.calls[t]
               ops == ListOps(ExistingInOrder(projects[c.user]), c.plist)
           IN  sweep' = [sweep EXCEPT
                            !.calls[t].ops = ops,
                            !.calls[t].pc = IF ops = <<>> THEN "done" ELSE "commit"]
        /\ UNCHANGED <<users, cache, projects, ledger, sessions, now, last, gen>>

(* Lines 284-287, 304-310: the next batch is committed. *)
ReplaceCommit ==
    \E t \in Threads :
        /\ AtReplace(t, "commit")
        /\ LET c == sweep.calls[t] IN
           /\ projects' = [projects EXCEPT ![c.user] =
                              CommitBatch(@, BatchOf(c.ops, c.committed + 1))]
           /\ sweep' = [sweep EXCEPT
                           !.calls[t].committed = @ + 1,
                           !.calls[t].pc =
                               IF (c.committed + 1) * BatchLimit >= Len(c.ops)
                               THEN "done" ELSE "commit"]
        /\ UNCHANGED <<users, cache, ledger, sessions, now, last, gen>>

(* get_cached_projects, lines 163-173: the parent document is read. *)
ReadParent ==
    /\ "reader" \in DOMAIN sweep
    /\ sweep.reader = "idle"
    /\ LET current_user_id == resolve_user_id_for_query("N").current IN
       IF current_user_id \in DOMAIN cache
       THEN /\ sweep' = [sweep EXCEPT !.reader = "stream"]
            /\ UNCHANGED last
       ELSE /\ sweep' = [sweep EXCEPT !.reader = "done"]
            /\ last' = [op |-> "getProjects", user |-> "N", found |-> FALSE,
                        docs |-> <<>>, pred |-> NoPred]
    /\ UNCHANGED <<users, cache, projects, ledger, sessions, now, gen>>

(* get_cached_projects, lines 176-192: the sub-collection is listed; the   *)
(* result holds one entry for every document, here under its document id.  *)
ReadStream ==
    /\ "reader" \in DOMAIN sweep
    /\ sweep.reader = "stream"
    /\ sweep' = [sweep EXCEPT !.reader = "done"]
    /\ last' = [op |-> "getProjects", user |-> "N", found |-> TRUE,
                docs |-> projects[resolve_user_id_for_query("N").current],
                pred |-> NoPred]
    /\ UNCHANGED <<users, cache, projects, ledger, sessions, now, gen>>

NextRace == RaceParent \/ ReplaceList \/ ReplaceCommit \/ ReadParent \/ ReadStream

SpecRace == InitRace /\ [][NextRace]_vars

NextConcurrent == ConcurrentParent \/ ReplaceList \/ ReplaceCommit

SpecConcurrent == InitConcurrent /\ [][NextConcurrent]_vars

(***************************************************************************)
(* A migration racing isHidden.  get_hidden_projects_count and              *)
(* get_hidden_projects_stats list the documents under the current id,       *)
(* then those under the old id, and commit one batch of updates (lines      *)
(* 131-149, 251-266); is_project_hidden looks the pair up under the         *)
(* current id, then under the old id, and updates the document it found     *)
(* (lines 337-346).  None of them uses a transaction.  Both calls are made  *)
(* with the canonical id "N" of the migrated user.  `sweep.stored` holds    *)
(* the project ids that have a record, `sweep.check` the position of        *)
(* isHidden and `sweep.migrate` that of the migrating call.                 *)
(***************************************************************************)
LegacyLedgers ==
    {[r \in S |-> 1] :
        S \in SUBSET {NewDoc(u, ToStr(v), "manual") :
                         u \in LedgerIds, v \in LedgerIdValues}}

InitMigrating ==
    /\ users = UserRecords
    /\ cache = <<>>
    /\ projects = [u \in CallerIds |-> <<>>]
    /\ sessions = <<>>
    /\ now = 0
    /\ last = NoOp
    /\ gen = [u \in CallerIds |-> NoGen]
    /\ ledger \in LegacyLedgers
    /\ sweep = [pc |-> "migrating",
                stored |-> {r.project_id : r \in DOMAIN ledger},
                check |-> [pc |-> "idle"], migrate |-> [pc |-> "idle"]]

(* Lines 334-338: the lookup under the current id. *)
CheckCurrent ==
    \E project_id \in LedgerIdValues :
        /\ sweep.pc = "migrating"
        /\ sweep.check.pc = "idle"
        /\ LET res == resolve_user_id_for_query("N")
               docs == DocsOfPair(res.current, ToStr(project_id))
           IN  sweep' = [sweep EXCEPT !.check =
                   [pc |-> IF docs = {} /\ res.old # NoUid THEN "old" ELSE "done",
                    current |-> res.current, old |-> res.old,
                    pid |-> ToStr(project_id), result |-> docs # {}]]
        /\ UNCHANGED <<users, cache, projects, ledger, sessions, now, last, gen>>

(* Lines 341-346: the lookup under the old id and the update of the        *)
(* document found.                                                          *)
CheckOld ==
    /\ sweep.pc = "migrating"
    /\ sweep.check.pc = "old"
    /\ LET c == sweep.check
           docs == DocsOfPair(c.old, c.pid)
       IN  /\ IF docs = {} THEN UNCHANGED ledger
              ELSE \E r \in docs :
                      ledger' = BagPut(BagDrop(ledger, r, 1),
                                       Migrated(r, c.current), 1)
           /\ sweep' = [sweep EXCEPT !.check.pc = "done",
                                     !.check.result = docs # {}]
    /\ UNCHANGED <<users, cache, projects, sessions, now, last, gen>>

(* Lines 131-134 and 251-252: the documents under the current id. *)
MigrateCurrent ==
    \E name \in {"count", "ledgerStats"} :
        /\ sweep.pc = "migrating"
        /\ sweep.migrate.pc = "idle"
        /\ LET res == resolve_user_id_for_query("N") IN
           sweep' = [sweep EXCEPT !.migrate =
               [pc |-> IF CountOfUser(res.current) = 0 /\ res.old # NoUid
                       THEN "old" ELSE "done",
                op |-> name, current |-> res.current, old |-> res.old,
                docs |-> {}]]
        /\ UNCHANGED <<users, cache, projects, ledger, sessions, now, last, gen>>

(* Lines 139-140 and 256-257: the documents under the old id. *)
MigrateOld ==
    /\ sweep.pc = "migrating"
    /\ sweep.migrate.pc = "old"
    /\ LET docs == DocsOfUser(sweep.migrate.old) IN
       sweep' = [sweep EXCEPT !.migrate.docs = docs,
                              !.migrate.pc = IF docs = {} THEN "done" ELSE "commit"]
    /\ UNCHANGED <<users, cache, projects, ledger, sessions, now, last, gen>>

(* Lines 143-149 and 262-266: the batch of updates is committed.  An       *)
(* update applies to the document whatever its user_id has become.         *)
MigrateCommit ==
    /\ sweep.pc = "migrating"
    /\ sweep.migrate.pc = "commit"
    /\ ledger' = MigrateDocs(ledger, sweep.migrate.docs \cap DOMAIN ledger,
                             sweep.migrate.current)
    /\ sweep' = [sweep EXCEPT !.migrate.pc = "done"]
    /\ UNCHANGED <<users, cache, projects, sessions, now, last, gen>>

NextMigrating ==
    CheckCurrent \/ CheckOld \/ MigrateCurrent \/ MigrateOld \/ MigrateCommit

SpecMigrating == InitMigrating /\ [][NextMigrating]_vars

(***************************************************************************)
(* The keep-alive endpoint invoked again.  keep_sessions_alive starts its   *)
(* verifications as daemon threads and returns without joining them (lines  *)
(* 244-247), so when the endpoint is invoked a second time the              *)
(* verifications of the first sweep may still be running; nothing in the    *)
(* function waits for them or keeps a second sweep from starting.           *)
(* `sweep.earlier` holds the verifications started by the first sweep.      *)
(***************************************************************************)
KeepAgain ==
    /\ sweep.pc = "kept"
    /\ "earlier" \notin DOMAIN sweep
    /\ sweep' = [pc |-> "keepalive", todo |-> DOMAIN sessions,
                 listed |-> sessions, started |-> 0, skipped |-> 0,
                 checks |-> <<>>, earlier |-> sweep.checks]
    /\ UNCHANGED <<users, cache, projects, ledger, sessions, now, last, gen>>

HasEarlier(u, pc) ==
    /\ "earlier" \in DOMAIN sweep
    /\ u \in DOMAIN sweep.earlier
    /\ sweep.earlier[u].pc = pc

(* Lines 205-209, 219, in a thread of the first sweep. *)
EarlierVerify ==
    \E u \in RefreshIds, outcome \in RemoteOutcomes :
        /\ HasEarlier(u, "verify")
        /\ sweep' = [sweep EXCEPT !.earlier[u] =
              [pc |-> IF outcome = "raised" THEN "handler" ELSE "update",
               result |-> outcome]]
        /\ UNCHANGED <<users, cache, projects, ledger, sessions, now, last, gen>>

(* Lines 209-225, in a thread of the first sweep: the flag is stored from  *)
(* the result of the verification, False from the except clause.           *)
EarlierUpdate ==
    \E u \in RefreshIds :
        /\ HasEarlier(u, "update") \/ HasEarlier(u, "handler")
        /\ sessions' = update_session_key_status(u, sweep.earlier[u].result = "ok")
        /\ sweep' = [sweep EXCEPT !.earlier[u].pc = "done"]
        /\ UNCHANGED <<users, cache, projects, ledger, now, last, gen>>

(* The three sweeps, the keep-alive sweep run a second time. *)
NextKeepAlives ==
    NextSweeps \/ KeepAgain \/ EarlierVerify \/ EarlierUpdate

SpecKeepAlives == InitSweeps /\ [][NextKeepAlives]_vars

(***************************************************************************)
(* Properties of the cache store.                                           *)
(***************************************************************************)
ProjectKeys(plist) == {ToStr(plist[i].id) : i \in 1..Len(plist)}

ResultKeys(r) == {ToStr(p.id) : p \in r.projects}

(* The ids of a list are usable keys: not empty, no two alike as strings. *)
DistinctIds(plist) ==
    /\ \A i \in 1..Len(plist) : ToStr(plist[i].id) # ""
    /\ \A i, j \in 1..Len(plist) : i # j => ToStr(plist[i].id) # ToStr(plist[j].id)

StoredTotal(u) == cache[u].total_count

ChildCount(u) == Cardinality(DOMAIN projects[u])

(* A getProjects call that directly follows a successful replaceAll of the *)
(* same user.                                                               *)
RoundTrip ==
    /\ last.op = "getProjects"
    /\ last.pred.op = "replaceAll"
    /\ last.pred.result
    /\ last.pred.user = last.user

(* C1, as stated: for every list of projects, replaceAll then getProjects  *)
(* returns exactly the project_ids of the list and a total_count equal to  *)
(* the length of the list.                                                  *)
C1_AnyList ==
    RoundTrip =>
        /\ last.result.found
        /\ ResultKeys(last.result) = ProjectKeys(last.pred.projects)
        /\ last.result.total_count = Len(last.pred.projects)

(* C1, amended: for every list of projects whose ids, as strings, are not  *)
(* empty and pairwise distinct, replaceAll then getProjects returns        *)
(* exactly the projects of the list (nothing of the previous generation)   *)
(* and a total_count equal to the length of the list.                       *)
C1_RoundTrip ==
    (RoundTrip /\ DistinctIds(last.pred.projects)) =>
        /\ last.result.found
        /\ last.result.projects = SeqToSet(last.pred.projects)
        /\ ResultKeys(last.result) = ProjectKeys(last.pred.projects)
        /\ last.result.total_count = Len(last.pred.projects)

(* A round trip whose replaceAll replaced a generation of two projects, one *)
(* of which the new list lacks.                                             *)
C1_Witness ==
    /\ RoundTrip
    /\ DistinctIds(last.pred.projects)
    /\ Len(last.pred.projects) = 1
    /\ Cardinality(last.pred.existing) = 2
    /\ last.pred.existing \ ProjectKeys(last.pred.projects) # {}
    /\ last.result.total_count = 1

(* C5, as stated: after replaceAll left N projects in the cache and        *)
(* deleteSet calls removed k of them (ids pairwise disjoint and present),  *)
(* the stored total_count and the count stats() returns are both N - k.    *)
C5_AnyCache ==
    \A u \in CacheIds :
        gen[u].valid =>
            /\ StoredTotal(u) = gen[u].n - gen[u].k
            /\ get_cache_stats(u).total_count = gen[u].n - gen[u].k

(* C5, amended: the same, for a cache written by a replaceAll whose list   *)
(* has ids that are, as strings, not empty and pairwise distinct (so that  *)
(* the N projects of the cache are the len(projects) that was stored).     *)
C5_NoDrift ==
    \A u \in CacheIds :
        (gen[u].valid /\ gen[u].stored = gen[u].n) =>
            /\ StoredTotal(u) = gen[u].n - gen[u].k
            /\ get_cache_stats(u).total_count = gen[u].n - gen[u].k

(* Two deleteSet calls of one id each have emptied a cache of two, and     *)
(* stats() has been called.                                                 *)
C5_Witness ==
    /\ last.op = "stats"
    /\ last.pred.op = "deleteSet"
    /\ last.pred.result
    /\ Len(last.pred.ids) = 1
    /\ gen[last.user].valid
    /\ gen[last.user].stored = 2
    /\ gen[last.user].n = 2
    /\ gen[last.user].k = 2
    /\ last.result.total_count = 0

(* The step is a call of the operation `name` that returned true. *)
Succeeded(name) ==
    /\ last'.op = name
    /\ last'.result
    /\ now' = now

(* C6, as stated: after any successful replaceAll or deleteSet, whatever   *)
(* the input list, the stored total_count is the number of children.       *)
C6_AnyInput ==
    (last.op \in {"replaceAll", "deleteSet"} /\ last.result /\ last.user \in DOMAIN cache)
        => StoredTotal(last.user) = ChildCount(last.user)

(* C6, amended: the stored total_count is the number of children after a   *)
(* successful replaceAll whose list has ids that are, as strings, not      *)
(* empty and pairwise distinct, and after a successful deleteSet whose ids *)
(* are pairwise distinct and all present in a cache whose stored count     *)
(* was the number of its children before the call.                          *)
C6_CountInvariant ==
    [][\A u \in CacheIds :
        /\ (Succeeded("replaceAll") /\ last'.user = u /\ DistinctIds(last'.projects))
              => StoredTotal(u)' = ChildCount(u)'
        /\ (/\ Succeeded("deleteSet")
            /\ last'.user = u
            /\ u \in DOMAIN cache
            /\ ValidDelete(u, last'.ids)
            /\ StoredTotal(u) = ChildCount(u))
              => StoredTotal(u)' = ChildCount(u)']_vars

(* A deleteSet of one present id has left one project of two, counted 1.   *)
C6_Witness ==
    /\ last.op = "deleteSet"
    /\ last.result
    /\ Len(last.ids) = 1
    /\ gen[last.user].valid
    /\ gen[last.user].stored = 2
    /\ gen[last.user].n = 2
    /\ gen[last.user].k = 1
    /\ StoredTotal(last.user) = 1
    /\ ChildCount(last.user) = 1

(* C7: a successful deleteSet on an existing cache leaves exactly the      *)
(* cached projects whose project_id is not among the ids; getProjects      *)
(* returns them, and stats() counts them.                                   *)
C7_DeleteSetContent ==
    [][\A u \in CacheIds :
        (Succeeded("deleteSet") /\ last'.user = u /\ u \in DOMAIN cache) =>
          LET kept == {p \in ChildDocs(u) : ToStr(p.id) \notin Keys(last'.ids)}
          IN  /\ get_cached_projects(u)'.found
              /\ get_cached_projects(u)'.projects = kept
              /\ get_cached_projects(u)'.total_count = Cardinality(kept)
              /\ get_cache_stats(u)'.total_count = Cardinality(kept)]_vars

(* getProjects after a deleteSet that removed one project of two and was   *)
(* also given an id the cache did not hold.                                 *)
C7_Witness ==
    /\ last.op = "getProjects"
    /\ last.pred.op = "deleteSet"
    /\ last.pred.result
    /\ last.pred.user = last.user
    /\ Len(last.pred.ids) = 2
    /\ last.result.found
    /\ last.result.total_count = 1
    /\ ResultKeys(last.result) \cap Keys(last.pred.ids) = {}

(***************************************************************************)
(* Properties of the ledger.                                                *)
(***************************************************************************)
LedgerKeys == {ToStr(v) : v \in LedgerIdValues}

(* C2: in every state reachable by record, count, isHidden, stats and      *)
(* paginate calls, with records that start under the legacy id and are     *)
(* migrated on read, the ledger holds at most one HiddenProjectRecord per  *)
(* (user_id, project_id) pair.                                              *)
C2_LedgerUnique ==
    \A u \in LedgerIds, key \in LedgerKeys : CountOfPair(u, key) <= 1

(* A read has migrated a record from the legacy id to the canonical id,    *)
(* and the ledger holds two records.                                        *)
C2_Witness ==
    /\ last.op \in {"count", "isHidden", "ledgerStats"}
    /\ last.writes >= 1
    /\ NumDocs >= 2
    /\ DocsOfUser("N") # {}

(* C3 as stated: once isHidden(user_id, project_id) has returned true, the *)
(* call returns true after any further operation with any id.  The last    *)
(* call was an isHidden that returned true; after one more step of any     *)
(* operation, isHidden with the same arguments still answers true.          *)
C3_Monotonic ==
    [][\A u \in LedgerIds, key \in LedgerKeys :
         (last.op = "isHidden" /\ last.user = u /\ last.pid = key
          /\ last.result = TRUE)
         => IsHiddenAnswer(u, key)']_vars

(* C4: when the ledger holds records only under a legacy id that the       *)
(* resolver discovers for user_id, so that a count(user_id) call migrates  *)
(* them, the count(user_id) call that directly follows returns the same    *)
(* number, writes nothing, and finds no record left under the legacy id    *)
(* (both calls returning normally, not from their exception handler).       *)
C4_MigrationIdempotent ==
    (last.op = "count" /\ ~last.failed /\ last.pred.op = "count"
     /\ last.pred.writes > 0)
    => /\ last.result = last.pred.result
       /\ last.writes = 0
       /\ LET res == resolve_user_id_for_query(last.user)
          IN  /\ res.old # NoUid
              /\ DocsOfUser(res.old) = {}
              /\ CountOfUser(res.current) = last.result

(* The second of two consecutive count calls, the first of which migrated  *)
(* two records.                                                             *)
C4_Witness ==
    /\ last.op = "count"
    /\ ~last.failed
    /\ last.pred.op = "count"
    /\ last.pred.writes = 2
    /\ last.result = 2

(* C8: a record(user_id, project_id, method) call that directly follows a  *)
(* successful record call for the same pair leaves exactly one record for  *)
(* the pair; it overwrites hidden_at, hidden_method and updated_at of the   *)
(* existing record, keeps its created_at, inserts nothing and leaves every  *)
(* other record and projects_processed_count alone.                         *)
C8_RecordIdempotent ==
    [][\A u \in LedgerIds, key \in LedgerKeys :
         (/\ last.op = "record" /\ last.result = TRUE
          /\ last.user = u /\ last.pid = key
          /\ last'.op = "record" /\ last'.result = TRUE
          /\ last'.user = u /\ last'.pid = key
          /\ now' = now)
         => LET current_user_id == resolve_user_id_for_query(u).current IN
            /\ CountOfPair(current_user_id, key) = 1
            /\ CountOfPair(current_user_id, key)' = 1
            /\ NumDocs' = NumDocs
            /\ ~last'.inserted
            /\ users' = users
            /\ \A r \in DOMAIN ledger :
                  ~(r.user_id = current_user_id /\ r.project_id = key)
                  => r \in DOMAIN ledger' /\ ledger'[r] >= ledger[r]
            /\ \E r \in DocsOfPair(current_user_id, key) :
               \E t \in DOMAIN ledger' :
                  /\ t.user_id = current_user_id /\ t.project_id = key
                  /\ t.hidden_at = now
                  /\ t.updated_at = now
                  /\ t.hidden_method = last'.method
                  /\ t.created_at = r.created_at]_vars

(* A record call has updated the record of its pair at a later time and    *)
(* with another method than the call that created it.                       *)
C8_Witness ==
    /\ last.op = "record"
    /\ last.result = TRUE
    /\ ~last.inserted
    /\ \E r \in DocsOfPair(resolve_user_id_for_query(last.user).current, last.pid) :
          /\ r.created_at < r.hidden_at
          /\ r.hidden_method = last.method
          /\ r.hidden_method = "manual"

(***************************************************************************)
(* Properties of isFresh.                                                   *)
(***************************************************************************)
(* The age in hours of the entry stored under the id the resolver returns  *)
(* for u, where that entry exists and holds a timestamp.                    *)
HasTimestamp(u) ==
    LET id == resolve_user_id_for_query(u).current IN
    id \in DOMAIN cache /\ cache[id].cached_at \in {Ts(t) : t \in 0..MaxHour}

AgeOf(u) == now - cache[resolve_user_id_for_query(u).current].cached_at.t

(* C9: isFresh(user_id, maxAgeHours) is true exactly when an entry exists  *)
(* under the resolved id with a timestamp cached_at and now - cached_at <  *)
(* maxAgeHours, strictly; it is false for a missing entry, a missing        *)
(* cached_at and a cached_at that is no timestamp; with maxAgeHours = 24    *)
(* it is false at age 25 and at age 24, and true at age 1.                  *)
C9_IsFresh ==
    last.op = "isFresh"
    => /\ last.result =
            (HasTimestamp(last.user) /\ AgeOf(last.user) < last.max_age_hours)
       /\ ~HasTimestamp(last.user) => last.result = FALSE
       /\ (HasTimestamp(last.user) /\ last.max_age_hours = 24)
            => /\ AgeOf(last.user) = 25 => last.result = FALSE
               /\ AgeOf(last.user) = 24 => last.result = FALSE
               /\ AgeOf(last.user) = 1 => last.result = TRUE

(* isFresh has answered false for an entry whose age equals maxAgeHours.   *)
C9_Witness ==
    /\ last.op = "isFresh"
    /\ last.max_age_hours = 24
    /\ HasTimestamp(last.user)
    /\ AgeOf(last.user) = 24
    /\ last.result = FALSE

(***************************************************************************)
(* Properties of the stale-cache sweep.                                     *)
(***************************************************************************)
NoSession(k) ==
    cache[k].user_id # NoUid /\ cache[k].user_id \notin DOMAIN sessions

InvalidSession(k) ==
    /\ cache[k].user_id \in DOMAIN sessions
    /\ sessions[cache[k].user_id].is_valid = "False"

(* C10 as stated: at the summary of a run of refresh_stale_caches every    *)
(* listed user is counted in exactly one counter, so the counters sum to   *)
(* the number of listed users; a user with no session record and a user    *)
(* whose session has is_valid = false are counted, and neither as error    *)
(* nor as refreshed; a user whose cache was fresh is counted as            *)
(* skipped-fresh.                                                           *)
C10_Summary ==
    sweep.pc = "done"
    => /\ sweep.refreshed + sweep.error + sweep.skipped_fresh
             + sweep.skipped_no_user_id = sweep.total_users
       /\ \A k \in DOMAIN sweep.counted :
             /\ sweep.counted[k] \in Counters
             /\ sweep.fresh[k] => sweep.counted[k] = "skipped_fresh"
             /\ (~sweep.fresh[k] /\ (NoSession(k) \/ InvalidSession(k)))
                   => sweep.counted[k] \notin {"error", "refreshed"}

(* C12 as stated, for refresh_stale_caches: a user whose stored session    *)
(* record has is_valid = false is skipped before any remote call: no       *)
(* upstream verify, no fetch and no cache write is issued for that user.   *)
C12_InvalidSkipped ==
    sweep.pc \in {"loop", "done"}
    => \A k \in DOMAIN sweep.calls :
          InvalidSession(k) => sweep.calls[k] = {}

(***************************************************************************)
(* Properties of the per-user refresh and of the dispatching sweep.         *)
(***************************************************************************)
(* The calls a refresh has issued so far. *)
IssuedCalls(u) == {Task(u).trace[i].ev : i \in DOMAIN Task(u).trace}

(* C11 as stated, for the per-user-dispatch sweep: a user whose cache was   *)
(* fresh (for the default max age of 24 hours) when the sweep examined it   *)
(* is skipped: no verify, no fetch and no replaceAll is issued for it.      *)
C11_FreshSkipped ==
    sweep.pc \in {"dispatch", "returned"}
    => \A u \in DOMAIN sweep.tasks :
          Task(u).fresh => IssuedCalls(u) \cap {"verify", "fetch", "replaceAll"} = {}

(* The session record refresh_stale_caches needs for the entry k. *)
UsableSession(k) ==
    /\ cache[k].user_id \in DOMAIN sessions
    /\ sessions[cache[k].user_id].sid

InLoop == sweep.pc \in {"loop", "dispatch"}

(* The summary of either sweep, every listed user examined: in             *)
(* refresh_stale_caches each user whose cache was stale and whose session  *)
(* record is usable went through the refresh and was counted as refreshed  *)
(* or, for a failure of its own, as error; in scheduled_cache_refresh      *)
(* each user was started or skipped.                                       *)
AtSummary ==
    \/ /\ sweep.pc = "done"
       /\ sweep.todo = {}
       /\ \A k \in DOMAIN sweep.counted :
             (~sweep.fresh[k] /\ UsableSession(k))
                => /\ sweep.counted[k] \in {"refreshed", "error"}
                   /\ sweep.counted[k] = "refreshed" <=> "replaceAll" \in sweep.calls[k]
    \/ /\ sweep.pc = "returned"
       /\ sweep.todo = {}
       /\ sweep.started + sweep.skipped = sweep.total_users
       /\ sweep.started = Cardinality(DOMAIN sweep.tasks)

(* C13: a sweep that is in its loop reaches its summary with every listed   *)
(* user examined, whatever failed for the users before: a failure of one   *)
(* user (session lookup, verify, fetch, hide call or cache write) ends     *)
(* that user's iteration or refresh and nothing else.                       *)
C13_Isolation == InLoop ~> AtSummary

(* A run of refresh_stale_caches that reached its summary after it had     *)
(* counted an error for one user and refreshed another.                     *)
C13_Witness ==
    /\ sweep.pc = "done"
    /\ \E k1, k2 \in DOMAIN sweep.counted :
          sweep.counted[k1] = "error" /\ sweep.counted[k2] = "refreshed"

(***************************************************************************)
(* Properties of the store on a failing backend.                            *)
(***************************************************************************)
(* The last call was a write of the cache in which a backend call failed. *)
CacheWriteFailed ==
    last.op \in {"replaceAll", "deleteSet"} /\ "fail" \in DOMAIN last

(* The last call was a record whose lookup or document write failed. *)
RecordFailed == last.op = "record" /\ last.failed

(* The last call was a record whose counter update failed. *)
CounterFailed ==
    last.op = "record" /\ "counter_failed" \in DOMAIN last /\ last.counter_failed

AbsentEntry(u) == resolve_user_id_for_query(u).current \notin DOMAIN cache

AbsentRecords(u) ==
    LET res == resolve_user_id_for_query(u) IN
    /\ DocsOfUser(res.current) = {}
    /\ res.old # NoUid => DocsOfUser(res.old) = {}

(* A read returned its negative result: false, none, exists = false or 0,  *)
(* when a backend read failed and when the entry is absent.                 *)
ReadsNegative ==
    /\ (last.op = "isFresh" /\ (last.raised \/ AbsentEntry(last.user)))
          => last.result = FALSE
    /\ (last.op = "getProjects" /\ (last.raised \/ AbsentEntry(last.user)))
          => last.result = NoResult
    /\ (last.op = "stats" /\ (last.raised \/ AbsentEntry(last.user)))
          => last.result.exists = FALSE
    /\ (last.op = "count" /\ (last.failed \/ AbsentRecords(last.user)))
          => last.result = 0
    /\ (last.op = "isHidden" /\ (last.failed \/ AbsentRecords(last.user)))
          => last.result = FALSE

Rank(ev) ==
    CASE ev = "verify" -> 1
      [] ev = "fetch" -> 2
      [] ev = "filters" -> 3
      [] ev \in {"hide", "record"} -> 4
      [] ev = "deleteSet" -> 5
      [] ev = "refetch" -> 6
      [] ev = "replaceAll" -> 7

Before(tr, i, name) == \E j \in 1..(i - 1) : tr[j].ev = name /\ tr[j].ok

(* C15: in the trace of a refresh the calls come in the order verify,       *)
(* fetch, hide policy, hide calls, cache update; a fetch is issued only    *)
(* after a verification that succeeded, a hide call only after the fetch   *)
(* and the hide policy returned, and the replaceAll is the last call of    *)
(* the refresh, issued when no project is left to hide.                    *)
C15_StepOrder ==
    \A u \in RefreshIds :
        HasTask(u) =>
           LET tr == Task(u).trace IN
           /\ \A i, j \in DOMAIN tr : i < j => Rank(tr[i].ev) <= Rank(tr[j].ev)
           /\ \A i \in DOMAIN tr :
                 /\ tr[i].ev = "fetch" => Before(tr, i, "verify")
                 /\ tr[i].ev = "hide"
                       => Before(tr, i, "fetch") /\ Before(tr, i, "filters")
                 /\ tr[i].ev = "replaceAll"
                       => /\ i = Len(tr)
                          /\ Task(u).pc = "done"
                          /\ Task(u).to_hide = <<>>
                          /\ Before(tr, i, "fetch")

(* A refresh that verified, fetched, hid a project and replaced the cache. *)
C15_Witness ==
    \E u \in RefreshIds :
        /\ At(u, "done")
        /\ {"verify", "fetch", "filters", "hide", "replaceAll"} \subseteq IssuedCalls(u)

(* The ids whose hide call returned success in the refresh of u. *)
HideSucceeded(u) ==
    {Task(u).trace[i].id : i \in {j \in DOMAIN Task(u).trace :
                                    Task(u).trace[j].ev = "hide" /\ Task(u).trace[j].ok}}

(* The ids whose hide call returned failure or raised. *)
HideFailed(u) ==
    {Task(u).trace[i].id : i \in {j \in DOMAIN Task(u).trace :
                                    Task(u).trace[j].ev = "hide" /\ ~Task(u).trace[j].ok}}

HiddenKeys(u) == {ToStr(id) : id \in HideSucceeded(u)}

(* The ledger, empty when the refresh started, holds for the user only     *)
(* records of projects whose hide call succeeded, and only their ids are   *)
(* collected for deleteSet and were passed to it.                           *)
GatedOnSuccess(u) ==
    /\ \A r \in DocsOfUser(resolve_user_id_for_query(u).current) :
          r.project_id \in HiddenKeys(u) /\ r.hidden_method = "ai_auto"
    /\ \A i \in DOMAIN Task(u).trace :
          Task(u).trace[i].ev = "record" => Task(u).trace[i].id \in HideSucceeded(u)
    /\ SeqToSet(Task(u).hidden_project_ids) = HideSucceeded(u)
    /\ SeqToSet(Task(u).errors) = HideFailed(u)
    /\ (last.op = "deleteSet" /\ last.user = u /\ "ids" \in DOMAIN last)
          => SeqToSet(last.ids) \subseteq HideSucceeded(u)

(* The deleteSet of the refresh of u leaves in the cache every project     *)
(* that is not among those whose hide call succeeded.                       *)
MarkKeepsOthers(u) ==
    (At(u, "hide") /\ At(u, "refetch")')
       => \A k \in DOMAIN projects[resolve_user_id_for_query(u).current] :
             k \notin HiddenKeys(u)
                => k \in DOMAIN projects'[resolve_user_id_for_query(u).current]

(* C16: during a refresh a ledger record is appended for a project, and    *)
(* its id is passed to deleteSet, only if the hide call for that project   *)
(* returned success; a project whose hide call failed or raised gets no    *)
(* record and is not removed from the cache by deleteSet.                   *)
C16_HideGating ==
    /\ [](\A u \in RefreshIds : HasTask(u) => GatedOnSuccess(u))
    /\ [][\A u \in RefreshIds : MarkKeepsOthers(u)]_vars

(* After the deleteSet of a refresh in which one hide call succeeded and   *)
(* the hide call for the cached project 7 did not: the ledger holds a      *)
(* record and project 7 is still cached.                                    *)
C16_Witness ==
    \E u \in RefreshIds :
        /\ At(u, "refetch")
        /\ last.op = "deleteSet" /\ last.result
        /\ HideSucceeded(u) # {}
        /\ StrId("7") \in HideFailed(u)
        /\ "7" \in DOMAIN projects[u]
        /\ DocsOfUser(u) # {}

(* C17 as stated: when a refresh has returned success, the user's cache    *)
(* contains no project whose hide call succeeded during that refresh, on   *)
(* every path, the one where the second fetch fails included.               *)
C17_PostHide ==
    \A u \in RefreshIds :
        (At(u, "done") /\ Task(u).success)
           => DOMAIN projects[resolve_user_id_for_query(u).current]
                 \cap HiddenKeys(u) = {}

(***************************************************************************)
(* Properties of the keep-alive sweep.                                      *)
(***************************************************************************)
Eligible(k) == sweep.listed[k].sid /\ sweep.listed[k].is_valid # "False"

Dispatching == sweep.pc \in {"dispatch", "keepalive"}

Returned == sweep.pc \in {"returned", "kept"}

(* C19: a dispatching sweep that is in its loop returns, whether or not    *)
(* the refreshes or verifications it has started ever take another step:   *)
(* nothing is assumed of them.                                              *)
C19_FireAndForget == Dispatching ~> Returned

(* The cache-refresh sweep has returned and a refresh it started has not   *)
(* taken its first step, or is between two of its steps.                    *)
C19_Witness ==
    /\ sweep.pc = "returned"
    /\ \E u, v \in DOMAIN sweep.tasks :
          Task(u).pc = "lookup" /\ Task(v).pc = "hide"

(* The ledger records of one user id. *)
RowsOf(l, v) == [r \in {x \in DOMAIN l : x.user_id = v} |-> l[r]]

(* The refresh of u took a step. *)
Stepped(u) == HasTask(u) /\ HasTask(u)' /\ Task(u)' # Task(u)

(* The cache entry, the cached projects and the ledger records of v, and   *)
(* the session records, are what they were.                                 *)
Untouched(v) ==
    /\ (v \in DOMAIN cache') <=> (v \in DOMAIN cache)
    /\ v \in DOMAIN cache => cache'[v] = cache[v]
    /\ projects'[v] = projects[v]
    /\ RowsOf(ledger', v) = RowsOf(ledger, v)
    /\ sessions' = sessions

(* C20: a step of the refresh of user U leaves the cache entry, the cached *)
(* projects and the ledger records of every other user id as they were,    *)
(* whatever the refreshes of other users have done in between; it writes   *)
(* no session record.                                                       *)
C20_CrossUser ==
    [][\A u \in RefreshIds :
          Stepped(u)
             => \A v \in CallerIds \ {resolve_user_id_for_query(u).current} :
                   Untouched(v)]_vars

(* Two refreshes that ran side by side are over; each hid a project, left  *)
(* a ledger record under its user id and replaced its user's cache.        *)
C20_Witness ==
    /\ At("N", "done") /\ At("B", "done")
    /\ Task("N").success /\ Task("B").success
    /\ DocsOfUser("N") # {} /\ DocsOfUser("B") # {}
    /\ {"N", "B"} \subseteq DOMAIN cache
    /\ gen["N"].valid /\ gen["B"].valid

(***************************************************************************)
(* Properties of the identity resolver.                                     *)
(***************************************************************************)
HasRecord(u) == u \in DOMAIN users

CrossReferenced(u) == {k \in DOMAIN users : users[k].firebase_uid = u}

(* C21: resolve(user_id) returns (user_id, none) when a user record exists *)
(* under user_id; otherwise (user_id, K) for a record K whose firebase_uid *)
(* equals user_id when there is one; otherwise (user_id, none).  The first *)
(* component is the caller's id, and a call whose lookup fails returns     *)
(* (user_id, none).                                                         *)
C21_Resolve ==
    last.op = "resolve" =>
        /\ last.result.current = last.user
        /\ IF last.fail # "none" THEN last.result.old = NoUid
           ELSE IF HasRecord(last.user) THEN last.result.old = NoUid
           ELSE IF CrossReferenced(last.user) # {}
                THEN last.result.old \in CrossReferenced(last.user)
                ELSE last.result.old = NoUid

(* A user with no record of its own and two records that refer to it is    *)
(* resolved to one of the two.                                              *)
C21_Witness ==
    /\ last.op = "resolve"
    /\ last.fail = "none"
    /\ ~HasRecord(last.user)
    /\ Cardinality(CrossReferenced(last.user)) = 2
    /\ last.result.old = "B"

(* What a count would return now, before any migration it performs: the    *)
(* records under the resolved id, or those under the old id when there are *)
(* none.                                                                    *)
CountAnswer(u) ==
    LET res == resolve_user_id_for_query(u) IN
    IF CountOfUser(res.current) = 0 /\ res.old # NoUid
    THEN CountOfUser(res.old) ELSE CountOfUser(res.current)

(* C22: for the migrated user the legacy id L and the canonical id N are   *)
(* interchangeable at every entry point: both resolve to the same          *)
(* canonical id, and in every state getProjects, isFresh, stats, isHidden  *)
(* and count answer through L what they answer through N, so that what was *)
(* written through one id is observed through the other.                   *)
C22_EitherId ==
    (last.op \in {"replaceAll", "deleteSet", "record"} /\ last.result) =>
        /\ resolve_user_id_for_query("L").current = resolve_user_id_for_query("N").current
        /\ get_cached_projects("L") = get_cached_projects("N")
        /\ get_cache_stats("L") = get_cache_stats("N")
        /\ is_cache_fresh("L", DefaultMaxAgeHours) = is_cache_fresh("N", DefaultMaxAgeHours)
        /\ \A v \in LedgerIdValues :
              IsHiddenAnswer("L", ToStr(v)) = IsHiddenAnswer("N", ToStr(v))
        /\ CountAnswer("L") = CountAnswer("N")

(* C23: after any sequence of replaceAll and deleteSet calls, the          *)
(* total_count that getProjects and stats return is the number of          *)
(* documents in the sub-collection of the user's entry, whatever the       *)
(* stored total_count holds; for a missing entry getProjects returns       *)
(* nothing and stats returns exists = false with total_count 0.            *)
C23_LiveRecount ==
    /\ last.op = "getProjects" =>
          IF last.user \in DOMAIN cache
          THEN /\ last.result.found
               /\ last.result.total_count = ChildCount(last.user)
          ELSE ~last.result.found
    /\ last.op = "stats" =>
          IF last.user \in DOMAIN cache
          THEN /\ last.result.exists
               /\ last.result.total_count = ChildCount(last.user)
          ELSE /\ ~last.result.exists
               /\ last.result.total_count = 0

(* stats of an entry whose stored count has drifted from its children. *)
C23_Witness ==
    /\ last.op = "stats"
    /\ last.user \in DOMAIN cache
    /\ StoredTotal(last.user) # ChildCount(last.user)
    /\ ChildCount(last.user) > 0
    /\ last.result.total_count = ChildCount(last.user)

(***************************************************************************)
(* Properties of concurrent deleteSet calls.                                *)
(***************************************************************************)
CallDone(t) == HasCall(t) /\ sweep.calls[t].pc = "done" /\ sweep.calls[t].result

(* The ids of the call are pairwise distinct and were all in the cache. *)
PresentIds(t) ==
    /\ Cardinality(Keys(sweep.calls[t].ids)) = Len(sweep.calls[t].ids)
    /\ Keys(sweep.calls[t].ids) \subseteq sweep.present

(* C24: when two deleteSet calls for the same user run concurrently and    *)
(* remove disjoint sets of present ids of sizes a and b from a cache whose *)
(* stored count is N, the stored total_count after both have completed is  *)
(* N - a - b, under every interleaving.                                     *)
C24_AtomicCount ==
    (/\ CallDone("T1") /\ CallDone("T2")
     /\ PresentIds("T1") /\ PresentIds("T2")
     /\ Keys(sweep.calls["T1"].ids) \cap Keys(sweep.calls["T2"].ids) = {})
    => cache["N"].total_count =
          sweep.stored - Len(sweep.calls["T1"].ids) - Len(sweep.calls["T2"].ids)

(***************************************************************************)
(* Properties of the sweep endpoints.                                       *)
(***************************************************************************)
Responded == "status" \in DOMAIN sweep

BackendUnavailable == sweep.pc = "failed"

(* C25: a sweep endpoint answers with a success whenever the backend store *)
(* is reachable, however many users failed, and with a hard failure when,  *)
(* and only when, the backend store is unavailable.                         *)
C25_EndpointOutcome ==
    Responded => (sweep.status = 500 <=> BackendUnavailable)

(***************************************************************************)
(* Properties of the denormalised counter.                                  *)
(***************************************************************************)
(* A step that is a call of record by a user whose record exists under    *)
(* the id the call resolves to, and that returned true.                    *)
RecordStep ==
    /\ last'.op = "record"
    /\ last'.result
    /\ resolve_user_id_for_query(last'.user).current \in DOMAIN users

CounterIn(us, c) == us[c].projects_processed_count

RecordsIn(l, c) == SumOver(l, {r \in DOMAIN l : r.user_id = c})

StoredIn(l, c, key) == \E r \in DOMAIN l : r.user_id = c /\ r.project_id = key

CounterUpdateFailed == last'.inserted /\ last'.counter_failed

(* C26 as stated: every call of record that inserts a record increases    *)
(* projects_processed_count by exactly 1 and every call that updates one  *)
(* leaves it unchanged, and a call whose update of the counter fails still *)
(* returns true with the record stored.                                    *)
C26_Counter ==
    [][RecordStep =>
          LET c == resolve_user_id_for_query(last'.user).current IN
          /\ CounterIn(users', c) =
                CounterIn(users, c) + (IF last'.inserted THEN 1 ELSE 0)
          /\ StoredIn(ledger', c, last'.pid)
      ]_vars

(* C26, amended: a call of record that inserts a record and whose update  *)
(* of the counter does not fail increases projects_processed_count by     *)
(* exactly 1; a call that updates a record, and a call that inserts one   *)
(* while its update of the counter fails, leave the counter unchanged;    *)
(* in each case the call returns true and the record is stored.           *)
C26_Amended ==
    [][RecordStep =>
          LET c == resolve_user_id_for_query(last'.user).current IN
          /\ CounterIn(users', c) =
                CounterIn(users, c)
                   + (IF last'.inserted /\ ~CounterUpdateFailed THEN 1 ELSE 0)
          /\ StoredIn(ledger', c, last'.pid)
          /\ RecordsIn(ledger', c) =
                RecordsIn(ledger, c) + (IF last'.inserted THEN 1 ELSE 0)
      ]_vars

(* Two records were inserted for L; one update of the counter failed. *)
C26_Witness ==
    /\ last.op = "record"
    /\ last.user = "L"
    /\ last.inserted
    /\ ~last.counter_failed
    /\ CountOfUser("L") = 2
    /\ CounterIn(users, "L") = 1

(***************************************************************************)
(* Properties of the ordered reads of the ledger.                           *)
(***************************************************************************)
RecordsOf(u) == DocsOfUser(resolve_user_id_for_query(u).current)

OnlyCanonical(u) ==
    LET res == resolve_user_id_for_query(u) IN
    res.old = NoUid \/ DocsOfUser(res.old) = {}

(* The item is the result item of a record of the user. *)
ItemOf(item, u) ==
    \E r \in RecordsOf(u) :
        /\ item.project_id = r.project_id
        /\ item.hidden_method = r.hidden_method
        /\ item.hidden_at = IsoFormat(r.hidden_at)

(* The item can stand at the given rank of the user's records in           *)
(* descending hidden_at order: fewer than rank records are more recent,    *)
(* and at least rank records are as recent or more.                         *)
AtRank(item, rank, u) ==
    /\ SumOver(ledger, {r \in RecordsOf(u) : r.hidden_at > item.hidden_at.iso}) < rank
    /\ SumOver(ledger, {r \in RecordsOf(u) : r.hidden_at >= item.hidden_at.iso}) >= rank

NoRepeats(seq) == \A i, j \in DOMAIN seq : i # j => seq[i] # seq[j]

(* C27: for a user whose records are all under the canonical id, paginate  *)
(* returns as projects the records at ranks (page-1)*limit+1 .. page*limit *)
(* of the descending hidden_at order (at most limit of them); total is at  *)
(* most the number of the user's records and equals it when fewer than     *)
(* limit*page + 10 records exist; total_pages is ceil(total / limit), and  *)
(* 0 when total is 0.                                                       *)
C27_Paginate ==
    (last.op = "paginate" /\ OnlyCanonical(last.user)) =>
        LET r == last.result
            count == SumOver(ledger, RecordsOf(last.user))
            skip == (r.page - 1) * r.limit
        IN
        /\ ~last.failed
        /\ Len(r.projects) = Max(0, Min(r.limit, count - skip))
        /\ NoRepeats(r.projects)
        /\ \A i \in DOMAIN r.projects :
              /\ ItemOf(r.projects[i], last.user)
              /\ AtRank(r.projects[i], skip + i, last.user)
        /\ r.total <= count
        /\ count < r.limit * r.page + PaginateBuffer => r.total = count
        /\ IF r.total = 0 THEN r.total_pages = 0
           ELSE /\ r.total_pages * r.limit >= r.total
                /\ (r.total_pages - 1) * r.limit < r.total

(* The second page of one record, of a user with more records than the    *)
(* call fetches: the total reported is below the number of records.        *)
C27_Witness ==
    /\ last.op = "paginate"
    /\ last.user = "N"
    /\ last.result.page = 2
    /\ Len(last.result.projects) = 1
    /\ last.result.total < SumOver(ledger, RecordsOf("N"))
    /\ last.result.total_pages = last.result.total

ReportedMethods == {"manual", "auto_similar", "category", "feedback_based"}

WithMethod(u, m) == SumOver(ledger, {r \in RecordsOf(u) : r.hidden_method = m})

(* C28: the statistics of the ledger report as total the number of the     *)
(* user's records, as by_method the number of records of each of manual,   *)
(* auto_similar, category and feedback_based (the four sum to total minus  *)
(* the records of any other method), and as recent min(10, total) records  *)
(* in descending hidden_at order, none of the records left out being more  *)
(* recent than one included.                                                *)
C28_LedgerStats ==
    (last.op = "ledgerStats" /\ ~last.failed) =>
        LET r == last.result
            count == SumOver(ledger, RecordsOf(last.user))
        IN
        /\ r.total = count
        /\ \A m \in ReportedMethods : r.by_method[m] = WithMethod(last.user, m)
        /\ r.by_method.manual + r.by_method.auto_similar + r.by_method.category
              + r.by_method.feedback_based
           = count - SumOver(ledger, {x \in RecordsOf(last.user) :
                                         x.hidden_method \notin ReportedMethods})
        /\ Len(r.recent) = Min(10, count)
        /\ \A i \in DOMAIN r.recent :
              /\ ItemOf(r.recent[i], last.user)
              /\ AtRank(r.recent[i], i, last.user)
        /\ \A i, j \in DOMAIN r.recent :
              i < j => r.recent[i].hidden_at.iso >= r.recent[j].hidden_at.iso

(* The statistics of a user with more than ten records, some of a method   *)
(* that is not reported.                                                    *)
C28_Witness ==
    /\ last.op = "ledgerStats"
    /\ last.user = "N"
    /\ last.result.total > 10
    /\ Len(last.result.recent) = 10
    /\ last.result.by_method.manual >= 2
    /\ WithMethod("N", "ai_auto") >= 2

(***************************************************************************)
(* Independence of the ledger and the cache.                                *)
(***************************************************************************)
CachedKeys(u) == DOMAIN projects[resolve_user_id_for_query(u).current]

(* C29: record changes no cache entry and no cached project, and           *)
(* replaceAll and deleteSet change no ledger record; a record is stored    *)
(* whether or not the user has a cache entry, and a project is cached      *)
(* whether or not the ledger holds a record of it.                          *)
C29_Independent ==
    /\ [][/\ last'.op = "record" => cache' = cache /\ projects' = projects
          /\ last'.op \in {"replaceAll", "deleteSet"} => ledger' = ledger
          /\ (last'.op = "record" /\ last'.result) =>
                StoredIn(ledger', resolve_user_id_for_query(last'.user).current,
                         last'.pid)
          /\ (last'.op = "replaceAll" /\ last'.result) =>
                ProjectKeys(last'.projects)
                   = DOMAIN projects'[resolve_user_id_for_query(last'.user).current]
         ]_vars

(* A project is recorded hidden for a user who has no cache entry, while   *)
(* another user's cache holds a project the ledger has no record of.       *)
C29_Witness ==
    /\ last.op = "record"
    /\ last.result
    /\ last.user = "N"
    /\ "N" \notin DOMAIN cache
    /\ "L" \in DOMAIN cache
    /\ "7" \in CachedKeys("L")
    /\ ~StoredIn(ledger, "L", "7")
    /\ StoredIn(ledger, "N", last.pid)

(***************************************************************************)
(* The stored count as a lower bound.                                       *)
(***************************************************************************)
LowerBound(u) == 0 <= StoredTotal(u) /\ StoredTotal(u) <= ChildCount(u)

(* A successful deleteSet stores max(0, stored - len(project_ids)). *)
DeleteSetStores ==
    (/\ last'.op = "deleteSet" /\ last'.result
     /\ last'.user \in DOMAIN cache)
    => cache'[last'.user].total_count =
          Max(0, cache[last'.user].total_count - Len(last'.ids))

(* C30 as stated: after any sequence of successful replaceAll and          *)
(* deleteSet calls of one user, with ids that may be absent, repeated or   *)
(* deleted twice, the stored total_count is at least 0 and at most the     *)
(* number of cached projects of the entry.                                  *)
C30_LowerBound == \A u \in DOMAIN cache : LowerBound(u)

(* C30, amended: after a successful replaceAll whose list has ids that     *)
(* are, as strings, non-empty and pairwise distinct, and after any         *)
(* sequence of successful deleteSet calls that follows it (ids absent,     *)
(* repeated or deleted twice), the stored total_count is at least 0 and at *)
(* most the number of cached projects; every successful deleteSet stores   *)
(* max(0, stored - len(project_ids)).                                       *)
C30_Amended ==
    /\ [](sweep.distinct => \A u \in DOMAIN cache : LowerBound(u))
    /\ [][DeleteSetStores]_vars

(* The stored count is below the number of cached projects: a deleteSet    *)
(* was given an id that was not in the cache.                               *)
C30_Witness ==
    /\ sweep.distinct
    /\ last.op = "deleteSet"
    /\ last.result
    /\ "N" \in DOMAIN cache
    /\ StoredTotal("N") < ChildCount("N")

(***************************************************************************)
(* Properties of the batches.                                               *)
(***************************************************************************)
(* C31: no batch committed by replaceAll, by deleteSet or by the           *)
(* migration of count, stats or paginate holds more than 500 operations,   *)
(* whatever the number of cached projects or legacy records.               *)
C31_BatchCeiling ==
    "batches" \in DOMAIN last =>
        \A i \in DOMAIN last.batches : last.batches[i] <= BatchLimit

(***************************************************************************)
(* Properties of concurrent record calls.                                   *)
(***************************************************************************)
BothRecorded ==
    /\ "calls" \in DOMAIN sweep
    /\ sweep.pc = "records"
    /\ DOMAIN sweep.calls = Threads
    /\ \A t \in Threads : sweep.calls[t].pc = "done"

SamePair ==
    \A s, t \in Threads :
        /\ sweep.calls[s].user = sweep.calls[t].user
        /\ sweep.calls[s].pid = sweep.calls[t].pid

(* C32: when two record calls for the same pair have run concurrently,     *)
(* under every interleaving of their steps the ledger holds exactly one    *)
(* record for the pair and projects_processed_count was incremented        *)
(* exactly once.                                                           *)
C32_Unique ==
    (BothRecorded /\ SamePair) =>
        \A t \in Threads :
            LET c == sweep.calls[t] IN
            /\ SumOver(ledger, {r \in DOMAIN ledger :
                                   r.user_id = c.user /\ r.project_id = c.pid}) = 1
            /\ c.user \in DOMAIN users =>
                  users[c.user].projects_processed_count
                      = UserRecords[c.user].projects_processed_count + 1

(***************************************************************************)
(* Properties of replaceAll racing other calls.                             *)
(***************************************************************************)
ReadDuringReplace ==
    /\ "reader" \in DOMAIN sweep
    /\ last.op = "getProjects"
    /\ last.found

(* The projects of the generation stored before the race and of the list   *)
(* given to the replaceAll.                                                 *)
EitherGeneration ==
    {sweep.prev[k] : k \in DOMAIN sweep.prev}
        \cup UNION {{c.plist[i] : i \in DOMAIN c.plist} :
                       c \in {sweep.calls[t] : t \in DOMAIN sweep.calls}}

(* C33: a getProjects call that interleaves with one replaceAll on the     *)
(* same user returns only projects of the previous or of the new           *)
(* generation, and no two entries with the same project_id.                *)
C33_ReaderRace ==
    ReadDuringReplace =>
        /\ \A k \in DOMAIN last.docs : last.docs[k] \in EitherGeneration
        /\ \A j, k \in DOMAIN last.docs :
              ToStr(last.docs[j].id) = ToStr(last.docs[k].id) => j = k

(* The reader saw a partial set: the replaceAll had committed its first    *)
(* batch and not its last, and documents of the previous generation were   *)
(* still there.                                                             *)
C33_Witness ==
    /\ ReadDuringReplace
    /\ \E t \in DOMAIN sweep.calls :
          /\ sweep.calls[t].committed >= 1
          /\ sweep.calls[t].pc = "commit"
    /\ last.docs # <<>>
    /\ DOMAIN last.docs # DOMAIN sweep.prev
    /\ DOMAIN last.docs \subseteq DOMAIN sweep.prev

BothReplaced ==
    /\ "calls" \in DOMAIN sweep
    /\ sweep.pc = "replaces"
    /\ DOMAIN sweep.calls = Threads
    /\ \A t \in Threads : sweep.calls[t].pc = "done"

(* C34: after two concurrent replaceAll calls for the same user have both  *)
(* completed, the user's children are exactly the project set of one of    *)
(* the two calls and the stored total_count is that call's count.          *)
C34_Converge ==
    BothReplaced =>
        \E t \in Threads :
            LET c == sweep.calls[t] IN
            /\ projects[c.user] = CommitBatch(<<>>, ListOps(<<>>, c.plist))
            /\ cache[c.user].total_count = Len(c.plist)

(***************************************************************************)
(* Properties of a migration racing isHidden.                               *)
(***************************************************************************)
(* C35: while a count or stats call is migrating the user's legacy         *)
(* records, a concurrent isHidden for a project that has a ledger record   *)
(* returns true under every interleaving of the migration's writes with    *)
(* the lookups of isHidden.                                                 *)
C35_Transparent ==
    (/\ "check" \in DOMAIN sweep
     /\ sweep.check.pc = "done"
     /\ sweep.migrate.pc # "idle"
     /\ sweep.check.pid \in sweep.stored) => sweep.check.result

(***************************************************************************)
(* Properties of failed and completed refreshes.                            *)
(***************************************************************************)
(* A replaceAll over an entry with stored documents returned false after   *)
(* its batch of deletes and sets failed to commit.                         *)
CommitFailed ==
    /\ last'.op = "replaceAll"
    /\ ~last'.result
    /\ last'.fail = "batch"
    /\ last'.user \in DOMAIN cache
    /\ DOMAIN projects[last'.user] # {}

(* C36: if replaceAll returns false because a batch commit failed, the     *)
(* entry's cached_at and total_count are as they were before the call.     *)
C36_FailedReplace ==
    [][CommitFailed =>
          /\ cache'[last'.user].cached_at = cache[last'.user].cached_at
          /\ cache'[last'.user].total_count = cache[last'.user].total_count]_vars

(* C37: whenever a sweep counts a user as refreshed, the user's cached_at  *)
(* was set during that refresh, so isFresh is true immediately afterwards  *)
(* for any maxAgeHours >= 1.                                                *)
C37_RefreshedFresh ==
    (sweep.pc \in {"loop", "done"} /\ "counted" \in DOMAIN sweep) =>
        \A k \in DOMAIN sweep.counted :
            sweep.counted[k] = "refreshed" =>
                \A max_age_hours \in 1..MaxHour :
                    is_cache_fresh(cache[k].user_id, max_age_hours)

(***************************************************************************)
(* Properties of the is_valid flag.                                         *)
(***************************************************************************)
MarkedInvalid(u) == u \in DOMAIN sessions /\ sessions[u].is_valid = "False"

(* A verification of the keep-alive sweep is issued for the session of u. *)
Verifies(u) ==
    \/ /\ HasCheck(u) /\ Check(u).pc = "verify"
       /\ Check(u)'.pc # "verify"
    \/ /\ HasEarlier(u, "verify")
       /\ sweep'.earlier[u].pc # "verify"

Examines(u) ==
    /\ sweep.pc = "keepalive"
    /\ sweep'.pc = "keepalive"
    /\ u \in sweep.todo
    /\ u \notin sweep'.todo

(* A verification of u stores the flag. *)
Stores(u) ==
    \/ /\ HasCheck(u) /\ Check(u).pc \in {"update", "handler"}
       /\ Check(u)'.pc = "done"
    \/ /\ HasEarlier(u, "update") \/ HasEarlier(u, "handler")
       /\ sweep'.earlier[u].pc = "done"

C39_Complete ==
    (/\ last.op = "count"
     /\ ~last.failed
     /\ resolve_user_id_for_query(last.user).old # NoUid) =>
        LET res == resolve_user_id_for_query(last.user) IN
        /\ DocsOfUser(res.old) = {}
        /\ last.result = CountOfUser(res.current) + CountOfUser(res.old)

====
